---- MODULE Spec2Model ----
(***************************************************************************)
(* A model of the scoring, ranking and pricing heuristics of the           *)
(* Freelance MCP server (src/ai_features.py).                              *)
(*                                                                         *)
(* Python floats are modelled as exact rationals <<n, d>> in lowest terms  *)
(* with d > 0, so that equality of two scores is equality of the pairs.    *)
(* round() is the exact rounding, half to even: where the exact value is a *)
(* tie, the float computation may round to the other neighbour.            *)
(* A call that raises is modelled by a result record with ok = FALSE and   *)
(* the name of the exception.                                              *)
(***************************************************************************)
EXTENDS Integers, Sequences, FiniteSets, TLC

VARIABLES
    user_profile,     \* AIGigRecommender.user_profile (the features of __init__)
    available_gigs,   \* the batch handed to recommend_gigs
    top_n,            \* the top_n argument of recommend_gigs
    pc,               \* position of the recommend_gigs call
    idx,              \* index of the next gig of the for loop
    recommendations,  \* the local list recommend_gigs appends to
    result,           \* what the last completed call returned
    first_result,     \* what the first completed call returned
    calls,            \* number of completed recommend_gigs calls
    inp,              \* arguments of a call of one scoring / pricing function
    out,              \* its result, NoCall before the call
    engine,           \* the fields of the engine objects shared by concurrent calls
    tasks,            \* the locals and the position of each concurrent call
    api_client,       \* the fields of a platform API client
    search,           \* the position of a search_gigs call of that client
    agent,            \* the fields of an AutoBiddingAgent and of its AutoBidConfig
    clock,            \* what datetime.now() / time.time() read at this moment
    monitor,          \* the fields of a PerformanceMonitor and the holder of its lock
    db,               \* the fields of a DatabaseManager and the rows of its gigs table
    seen              \* what an observer of the calls has recorded so far

vars == <<user_profile, available_gigs, top_n, agent, clock, monitor, db, seen, pc, idx, recommendations,
          result, first_result, calls, inp, out, engine, tasks, api_client, search>>

recVars == <<user_profile, available_gigs, top_n, agent, clock, monitor, db, seen, pc, idx, recommendations,
             result, first_result, calls, engine, tasks, api_client, search>>

----------------------------------------------------------------------------
(* Exact rational arithmetic standing for Python float arithmetic. *)

Abs(x) == IF x < 0 THEN -x ELSE x

RECURSIVE GCD(_, _)
GCD(a, b) == IF b = 0 THEN a ELSE GCD(b, a % b)

Rat(n, d) ==
    LET s == IF d < 0 THEN -1 ELSE 1
        g == GCD(Abs(n), Abs(d))
    IN  <<(s * n) \div g, (s * d) \div g>>

RInt(k) == <<k, 1>>
RAdd(a, b) == Rat(a[1] * b[2] + b[1] * a[2], a[2] * b[2])
RSub(a, b) == Rat(a[1] * b[2] - b[1] * a[2], a[2] * b[2])
RMul(a, b) == Rat(a[1] * b[1], a[2] * b[2])
RDiv(a, b) == Rat(a[1] * b[2], a[2] * b[1])
RLt(a, b) == a[1] * b[2] < b[1] * a[2]
RLe(a, b) == a[1] * b[2] <= b[1] * a[2]
RMin(a, b) == IF RLe(a, b) THEN a ELSE b
RMax(a, b) == IF RLe(b, a) THEN a ELSE b
InUnit(a) == RLe(RInt(0), a) /\ RLe(a, RInt(1))

(* Python's round(x, k) for k = ScaleDigits: nearest multiple of 1/scale,  *)
(* a tie going to the even neighbour.                                      *)
RRound(a, scale) ==
    LET whole == a[1] \div a[2]
        num   == (a[1] % a[2]) * scale
        q     == whole * scale + (num \div a[2])
        r2    == 2 * (num % a[2])
        up    == \/ r2 > a[2]
                 \/ r2 = a[2] /\ q % 2 = 1
    IN  Rat(IF up THEN q + 1 ELSE q, scale)

(* What a call returns or raises. *)
NoCall == [ok |-> FALSE, exc |-> "NoCall"]
Ret(v) == [ok |-> TRUE, val |-> v]
Raise(e) == [ok |-> FALSE, exc |-> e]

(* None, and Python's truth test of a number or None.  Every number read  *)
(* from a gig or profile dict is a rational, so None is the empty tuple.   *)
None == << >>
Falsy(x) == IF x = None THEN TRUE ELSE x[1] = 0

Cardinal(S) == Cardinality(S)
SeqRange(s) == {s[k] : k \in DOMAIN s}

----------------------------------------------------------------------------
(* Mutant: the skill names compared as written, without lower(). *)
LowerOmitted(s) == s

(* str.lower() on the skill, platform and type names of the model. *)
Lower(s) ==
    CASE s = "Python" -> "python"
      [] s = "React"  -> "react"
      [] s = "Rust"   -> "rust"
      [] s = "Upwork" -> "upwork"
      [] s = "HOURLY" -> "hourly"
      [] OTHER        -> s

(* AIGigRecommender.__init__: the features extracted from the profile. *)
UserFeatures(profile) ==
    [user_skills     |-> {Lower(s) : s \in profile.skills},
     user_rate_min   |-> profile.hourly_rate_min,
     user_rate_max   |-> profile.hourly_rate_max,
     user_experience |-> profile.years_experience,
     success_rate    |-> RDiv(profile.success_rate, RInt(100))]

(* gig.get('skills_required', []) is modelled by a tagged value:           *)
(*   kind "missing" : the key is absent (the default [] is used)           *)
(*   kind "list"    : a list, items its elements (None is a non-string)    *)
(*   kind "str"     : a string, items its characters                       *)
(*   kind "none"    : None, which cannot be iterated                       *)
SkillItems(sk) == IF sk.kind = "missing" THEN << >> ELSE sk.items

calculate_skill_match(self, gig) ==
    LET sk == gig.skills_required
    IN  IF sk.kind = "none" THEN Raise("TypeError")
        ELSE IF \E k \in DOMAIN SkillItems(sk) : SkillItems(sk)[k] = "NoneItem"
        THEN Raise("AttributeError")
        ELSE
        LET required_skills == {Lower(s) : s \in SeqRange(SkillItems(sk))}
            matches == Cardinal(self.user_skills \cap required_skills)
            total   == Cardinal(required_skills)
            bonus   == RMin(Rat(2, 10),
                            RMul(RInt(Cardinal(self.user_skills \ required_skills)),
                                 Rat(5, 100)))
            base_score == IF total > 0 THEN Rat(matches, total) ELSE RInt(0)
        IN  IF required_skills = {} THEN Ret(Rat(5, 10))
            ELSE Ret(RMin(RInt(1), RAdd(base_score, bonus)))

(* Mutant: the 40-hour conversion applied to every gig, hourly ones too. *)
estimated_hourly_always_fixed(gig) == RDiv(gig.budget_max, RInt(40))

(* The gig's effective hourly rate: budget_max / 40 for a fixed-price gig. *)
estimated_hourly(gig) ==
    IF gig.project_type = "fixed" THEN RDiv(gig.budget_max, RInt(40))
    ELSE gig.budget_max

calculate_rate_compatibility(self, gig) ==
    IF Falsy(gig.budget_max) THEN Ret(Rat(5, 10))
    ELSE
    LET e == estimated_hourly(gig)
    IN  IF RLt(e, self.user_rate_min)
        THEN Ret(RMax(RInt(0), RDiv(e, self.user_rate_min)))
        ELSE IF RLt(self.user_rate_max, e)
        THEN Ret(RInt(1))
        ELSE IF self.user_rate_max = self.user_rate_min
        THEN Raise("ZeroDivisionError")
        ELSE Ret(RAdd(Rat(8, 10),
                      RMul(Rat(2, 10),
                           RDiv(RSub(e, self.user_rate_min),
                                RSub(self.user_rate_max, self.user_rate_min)))))

(* Mutant: the thresholds of the review count taken inclusively. *)
reliability_bonus_inclusive(reviews) ==
    IF reviews >= 50 THEN Rat(1, 10)
    ELSE IF reviews >= 20 THEN Rat(5, 100)
    ELSE IF reviews <= 5 THEN Rat(-1, 10)
    ELSE RInt(0)

reliability_bonus(reviews) ==
    IF reviews > 50 THEN Rat(1, 10)
    ELSE IF reviews > 20 THEN Rat(5, 100)
    ELSE IF reviews < 5 THEN Rat(-1, 10)
    ELSE RInt(0)

(* Mutant: the rating normalised with its operands swapped. *)
estimate_client_quality_swapped(gig) ==
    LET rating == gig.client_rating
        base_score == IF ~Falsy(rating)
                      THEN RDiv(RSub(Rat(35, 10), rating), Rat(15, 10))
                      ELSE Rat(5, 10)
    IN  RMax(RInt(0), RMin(RInt(1), RAdd(base_score, reliability_bonus(gig.client_reviews))))

estimate_client_quality(gig) ==
    LET rating == gig.client_rating
        base_score == IF ~Falsy(rating)
                      THEN RDiv(RSub(rating, Rat(35, 10)), Rat(15, 10))
                      ELSE Rat(5, 10)
    IN  RMax(RInt(0), RMin(RInt(1), RAdd(base_score, reliability_bonus(gig.client_reviews))))

(* Mutant: the competition weight doubled, the others left as they are. *)
weights_overweight ==
    [skill_match |-> Rat(25, 100), rate_match |-> Rat(20, 100),
     client_quality |-> Rat(20, 100), win_probability |-> Rat(25, 100),
     competition |-> Rat(20, 100)]

weights ==
    [skill_match |-> Rat(25, 100), rate_match |-> Rat(20, 100),
     client_quality |-> Rat(20, 100), win_probability |-> Rat(25, 100),
     competition |-> Rat(10, 100)]

calculate_recommendation_score(skill_match, rate_match, client_quality, competition, win_prob) ==
    LET competition_score == RMax(RInt(0), RSub(RInt(1), Rat(competition, 50)))
        score == RAdd(RAdd(RAdd(RAdd(RMul(weights.skill_match, skill_match),
                                     RMul(weights.rate_match, rate_match)),
                                RMul(weights.client_quality, client_quality)),
                           RMul(weights.win_probability, win_prob)),
                      RMul(weights.competition, competition_score))
    IN  RRound(score, 1000)

(* int(proposals * multiplier): popular gigs attract half as many again. *)
estimate_competition(self, gig) ==
    LET proposals == gig.proposals_count
        skill_match == calculate_skill_match(self, gig).val
        rate_match == calculate_rate_compatibility(self, gig).val
    IN  IF RLt(Rat(7, 10), skill_match) /\ RLt(Rat(7, 10), rate_match)
        THEN (proposals * 3) \div 2
        ELSE proposals

(* Mutant: the competition tiers taken inclusively. *)
predict_win_probability_inclusive(self, gig, skill_match, competition) ==
    LET base_prob == RMul(skill_match, Rat(4, 10))
        competition_factor ==
            IF competition <= 5 THEN Rat(3, 10)
            ELSE IF competition <= 10 THEN Rat(2, 10)
            ELSE IF competition <= 20 THEN Rat(1, 10)
            ELSE Rat(5, 100)
        success_factor == RMul(self.success_rate, Rat(2, 10))
        exp_factor == RMin(Rat(1, 10), RDiv(self.user_experience, RInt(100)))
        total_prob == RAdd(RAdd(RAdd(base_prob, competition_factor), success_factor), exp_factor)
    IN  RMin(Rat(95, 100), RMax(Rat(5, 100), total_prob))

predict_win_probability(self, gig, skill_match, competition) ==
    LET base_prob == RMul(skill_match, Rat(4, 10))
        competition_factor ==
            IF competition < 5 THEN Rat(3, 10)
            ELSE IF competition < 10 THEN Rat(2, 10)
            ELSE IF competition < 20 THEN Rat(1, 10)
            ELSE Rat(5, 100)
        success_factor == RMul(self.success_rate, Rat(2, 10))
        exp_factor == RMin(Rat(1, 10), RDiv(self.user_experience, RInt(100)))
        total_prob == RAdd(RAdd(RAdd(base_prob, competition_factor), success_factor), exp_factor)
    IN  RMin(Rat(95, 100), RMax(Rat(5, 100), total_prob))

(* Mutant: the floor at the profile's minimum rate left out. *)
calculate_optimal_bid_unfloored(self, gig, win_prob) ==
    LET budget_max == gig.budget_max
        budget_min == gig.budget_min
    IN  IF Falsy(budget_max) THEN Ret(self.user_rate_min)
        ELSE IF budget_min = None THEN Raise("TypeError")
        ELSE
        LET fraction == IF RLt(Rat(7, 10), win_prob) THEN Rat(3, 10)
                        ELSE IF RLt(Rat(5, 10), win_prob) THEN Rat(5, 10)
                        ELSE Rat(7, 10)
            optimal == RAdd(budget_min, RMul(RSub(budget_max, budget_min), fraction))
        IN  Ret(RRound(optimal, 100))

calculate_optimal_bid(self, gig, win_prob) ==
    LET budget_max == gig.budget_max
        budget_min == gig.budget_min
    IN  IF Falsy(budget_max) THEN Ret(self.user_rate_min)
        ELSE IF budget_min = None THEN Raise("TypeError")
        ELSE
        LET fraction == IF RLt(Rat(7, 10), win_prob) THEN Rat(3, 10)
                        ELSE IF RLt(Rat(5, 10), win_prob) THEN Rat(5, 10)
                        ELSE Rat(7, 10)
            optimal == RAdd(budget_min, RMul(RSub(budget_max, budget_min), fraction))
            hourly_equivalent == IF gig.project_type = "fixed"
                                 THEN RDiv(optimal, RInt(40)) ELSE optimal
        IN  IF RLt(hourly_equivalent, self.user_rate_min)
            THEN Ret(IF gig.project_type = "fixed"
                     THEN RMul(self.user_rate_min, RInt(40)) ELSE self.user_rate_min)
            ELSE Ret(RRound(optimal, 100))

(* Mutant: 'high' from 3 risk points on. *)
assess_risk_level_high_from_three(client_quality, competition, win_prob) ==
    LET risk_score == (IF RLt(client_quality, Rat(5, 10)) THEN 2 ELSE 0)
                      + (IF competition > 20 THEN 2 ELSE 0)
                      + (IF RLt(win_prob, Rat(3, 10)) THEN 1 ELSE 0)
    IN  IF risk_score >= 3 THEN "high"
        ELSE IF risk_score >= 2 THEN "medium"
        ELSE "low"

assess_risk_level(client_quality, competition, win_prob) ==
    LET risk_score == (IF RLt(client_quality, Rat(5, 10)) THEN 2 ELSE 0)
                      + (IF competition > 20 THEN 2 ELSE 0)
                      + (IF RLt(win_prob, Rat(3, 10)) THEN 1 ELSE 0)
    IN  IF risk_score >= 4 THEN "high"
        ELSE IF risk_score >= 2 THEN "medium"
        ELSE "low"

suggest_approach(gig, win_prob, competition) ==
    IF RLt(Rat(7, 10), win_prob) /\ competition < 10 THEN "strong proposal"
    ELSE IF RLt(Rat(5, 10), win_prob) THEN "unique value proposition"
    ELSE IF competition > 20 THEN "differentiate"
    ELSE "demonstrate ROI"

(* The body of the try block of recommend_gigs for one gig: the            *)
(* recommendation, or the first exception raised on the way.  A record     *)
(* that is not a dict has no get().                                        *)
score_gig(self, gig) ==
    IF ~gig.dict THEN Raise("AttributeError")
    ELSE
    LET skill_match == calculate_skill_match(self, gig)
        rate_match == calculate_rate_compatibility(self, gig)
    IN  IF ~skill_match.ok THEN skill_match
        ELSE IF ~rate_match.ok THEN rate_match
        ELSE
        LET client_quality == estimate_client_quality(gig)
            competition == estimate_competition(self, gig)
            win_prob == predict_win_probability(self, gig, skill_match.val, competition)
            optimal_bid == calculate_optimal_bid(self, gig, win_prob)
        IN  IF ~optimal_bid.ok THEN optimal_bid
            ELSE Ret([gig_id |-> gig.id,
                      recommendation_score |->
                          calculate_recommendation_score(skill_match.val, rate_match.val,
                              client_quality, competition, win_prob),
                      win_probability |-> win_prob,
                      optimal_bid_amount |-> optimal_bid.val,
                      risk_level |-> assess_risk_level(client_quality, competition, win_prob),
                      estimated_competition |-> competition,
                      client_quality_score |-> client_quality,
                      suggested_approach |-> suggest_approach(gig, win_prob, competition)])

(* The except clause prints gig.get('id', 'unknown'): it raises in turn    *)
(* when the record is not a dict.                                          *)
handler_raises(gig) == ~gig.dict

(* Mutant: equal scores placed in front of the ones already sorted. *)
insert_by_score_ties_first(sorted, x) ==
    LET before == {k \in 1..Len(sorted) :
                      \A j \in 1..k : RLt(x.recommendation_score, sorted[j].recommendation_score)}
        n == Cardinality(before)
    IN  SubSeq(sorted, 1, n) \o <<x>> \o SubSeq(sorted, n + 1, Len(sorted))

(* list.sort(key=score, reverse=True) is a stable sort: x goes behind      *)
(* every element already placed whose score is not lower.                  *)
insert_by_score(sorted, x) ==
    LET before == {k \in 1..Len(sorted) :
                      \A j \in 1..k : RLe(x.recommendation_score, sorted[j].recommendation_score)}
        n == Cardinality(before)
    IN  SubSeq(sorted, 1, n) \o <<x>> \o SubSeq(sorted, n + 1, Len(sorted))

RECURSIVE sort_by_score(_, _, _)
sort_by_score(recs, k, sorted) ==
    IF k > Len(recs) THEN sorted
    ELSE sort_by_score(recs, k + 1, insert_by_score(sorted, recs[k]))

(* Mutant: one element more than asked for. *)
slice_to_one_more(list, n) ==
    IF n >= 0 THEN SubSeq(list, 1, IF n + 1 < Len(list) THEN n + 1 ELSE Len(list))
    ELSE SubSeq(list, 1, IF Len(list) + n > 0 THEN Len(list) + n ELSE 0)

(* list[:n] *)
slice_to(list, n) ==
    IF n >= 0 THEN SubSeq(list, 1, IF n < Len(list) THEN n ELSE Len(list))
    ELSE SubSeq(list, 1, IF Len(list) + n > 0 THEN Len(list) + n ELSE 0)

----------------------------------------------------------------------------
(* SmartPricingEngine *)

(* premium_skills of _calculate_skill_premium; 1.0 for any other skill. *)
premium_skills(skill) ==
    CASE skill \in {"ai", "ml", "machine learning"} -> Rat(130, 100)
      [] skill \in {"blockchain", "solidity"} -> Rat(125, 100)
      [] skill = "rust" -> Rat(120, 100)
      [] skill \in {"go", "react native", "flutter", "kubernetes"} -> Rat(115, 100)
      [] skill = "devops" -> Rat(110, 100)
      [] OTHER -> RInt(1)

RECURSIVE calculate_skill_premium_from(_, _, _)
calculate_skill_premium_from(skills, k, max_premium) ==
    IF k > Len(skills) THEN max_premium
    ELSE calculate_skill_premium_from(skills, k + 1,
             RMax(max_premium, premium_skills(Lower(skills[k]))))

calculate_skill_premium(skills) == calculate_skill_premium_from(skills, 1, RInt(1))

(* The label of the strategy text; max_budget None cannot be multiplied. *)
generate_pricing_strategy(optimal, min_budget, max_budget, competition, success_rate) ==
    IF competition < 5 /\ RLt(Rat(8, 10), success_rate) THEN Ret("Premium Strategy")
    ELSE IF competition > 20 THEN Ret("Competitive Strategy")
    ELSE IF max_budget = None THEN Raise("TypeError")
    ELSE IF RLt(RMul(max_budget, Rat(105, 100)), optimal) THEN Ret("Value Strategy")
    ELSE Ret("Balanced Strategy")

calculate_pricing_confidence(budget, competition) ==
    IF ~Falsy(budget) /\ competition < 15 THEN "high"
    ELSE IF ~Falsy(budget) \/ competition < 25 THEN "medium"
    ELSE "low"

(* Mutant: the profile's floor applied before the clamp into the budget. *)
price_bounds_floor_first(optimal_price, budget_min, budget_max, user_rate_min) ==
    LET floored == RMax(optimal_price, user_rate_min)
    IN  IF ~Falsy(budget_max)
        THEN RMax(RMin(floored, RMul(budget_max, Rat(11, 10))), budget_min)
        ELSE floored

(* "Ensure within reasonable bounds": at most 10% above the budget, at     *)
(* least budget_min, and then at least the profile's minimum rate.         *)
price_bounds(optimal_price, budget_min, budget_max, user_rate_min) ==
    LET in_budget == IF ~Falsy(budget_max)
                     THEN RMax(RMin(optimal_price, RMul(budget_max, Rat(11, 10))), budget_min)
                     ELSE optimal_price
    IN  RMax(in_budget, user_rate_min)

calculate_optimal_price(gig, profile) ==
    LET budget_min == gig.budget_min
        budget_max == gig.budget_max
        skills == SkillItems(gig.skills_required)
        competition == gig.proposals_count
        user_rate_min == profile.hourly_rate_min
        success_rate == RDiv(profile.success_rate, RInt(100))
    IN  IF ~Falsy(budget_max) /\ budget_min = None THEN Raise("TypeError")
        ELSE
        LET base_price == IF ~Falsy(budget_max)
                          THEN RDiv(RAdd(budget_min, budget_max), RInt(2))
                          ELSE user_rate_min
            competition_multiplier ==
                IF competition < 5 THEN Rat(115, 100)
                ELSE IF competition > 20 THEN Rat(90, 100)
                ELSE RInt(1)
            success_multiplier == RAdd(Rat(95, 100), RMul(success_rate, Rat(15, 100)))
            skill_multiplier == calculate_skill_premium(skills)
            optimal_price ==
                price_bounds(RMul(RMul(RMul(base_price, competition_multiplier),
                                       success_multiplier), skill_multiplier),
                             budget_min, budget_max, user_rate_min)
            strategy == generate_pricing_strategy(optimal_price, budget_min, budget_max,
                                                  competition, success_rate)
        IN  IF ~strategy.ok THEN strategy
            ELSE Ret([optimal_price |-> RRound(optimal_price, 100),
                      conservative_price |-> RRound(RMul(optimal_price, Rat(9, 10)), 100),
                      aggressive_price |-> RRound(RMul(optimal_price, Rat(11, 10)), 100),
                      recommended_strategy |-> strategy.val,
                      factors |->
                          [competition_level |->
                               IF competition < 5 THEN "low"
                               ELSE IF competition > 20 THEN "high" ELSE "medium",
                           skill_premium |->
                               RRound(RMul(RSub(skill_multiplier, RInt(1)), RInt(100)), 10),
                           success_rate_factor |->
                               RRound(RMul(RSub(success_multiplier, RInt(1)), RInt(100)), 10)],
                      confidence |-> calculate_pricing_confidence(budget_max, competition)])

----------------------------------------------------------------------------
(* The recommender's variables while no recommend_gigs call is modelled,   *)
(* and the call variables while no single function is being called.        *)
RecIdle ==
    /\ user_profile = << >>
    /\ available_gigs = << >>
    /\ top_n = 0
    /\ pc = "idle"
    /\ idx = 0
    /\ recommendations = << >>
    /\ result = << >>
    /\ first_result = << >>
    /\ calls = 0
    /\ engine = << >>
    /\ tasks = << >>
    /\ api_client = << >>
    /\ search = << >>
    /\ agent = << >>
    /\ clock = << >>
    /\ monitor = << >>
    /\ db = << >>
    /\ seen = << >>

Called == out.ok \/ out.exc # "NoCall"

(* Bounds of the input domains. *)
MaxRateStep == 4
MaxBudgetStep == 6

(* Rates 25, 50, ...; budgets 20, 40, ... (hourly) and 800, 1600, ...      *)
(* (fixed price, 20, 40, ... per hour of the assumed 40 hours).            *)
RateValues == {RInt(25 * k) : k \in 1..MaxRateStep}
BudgetValues ==
    {None, RInt(0)}
    \cup {RInt(20 * k) : k \in 1..MaxBudgetStep}
    \cup {RInt(800 * k) : k \in 1..MaxBudgetStep}
ProjectTypes == {"fixed", "hourly"}

----------------------------------------------------------------------------
(* SpecRate: _calculate_rate_compatibility applied to one profile and gig. *)

InitRate ==
    /\ RecIdle
    /\ out = NoCall
    /\ \E lo \in RateValues, hi \in RateValues, b \in BudgetValues, t \in ProjectTypes :
          /\ RLe(lo, hi)
          /\ inp = [fn |-> "rate_match",
                    self |-> [user_rate_min |-> lo, user_rate_max |-> hi],
                    gig |-> [budget_max |-> b, project_type |-> t]]

CallRateCompatibility ==
    /\ inp.fn = "rate_match"
    /\ ~Called
    /\ out' = calculate_rate_compatibility(inp.self, inp.gig)
    /\ UNCHANGED <<inp, recVars>>

NextRate == CallRateCompatibility

SpecRate == InitRate /\ [][NextRate]_vars

BudgetKnown(gig) == ~Falsy(gig.budget_max)

(* The effective hourly rate as the specification states it. *)
EffectiveRate(gig) ==
    IF gig.project_type = "hourly" THEN gig.budget_max
    ELSE RDiv(gig.budget_max, RInt(40))

WithinRange(self, gig) ==
    /\ BudgetKnown(gig)
    /\ RLe(self.user_rate_min, EffectiveRate(gig))
    /\ RLe(EffectiveRate(gig), self.user_rate_max)

(* C2: for every profile with rate_min <= rate_max and every gig with a    *)
(* known budget, rate_match returns a value in [0,1], and within the       *)
(* profile's range it is 0.8 + 0.2*(effective - rate_min)/(rate_max -      *)
(* rate_min).                                                              *)
C2_RateMatchInUnitRange ==
    (Called /\ inp.fn = "rate_match" /\ BudgetKnown(inp.gig)) =>
        /\ out.ok
        /\ InUnit(out.val)
        /\ WithinRange(inp.self, inp.gig) =>
              out.val = RAdd(Rat(8, 10),
                             RMul(Rat(2, 10),
                                  RDiv(RSub(EffectiveRate(inp.gig), inp.self.user_rate_min),
                                       RSub(inp.self.user_rate_max, inp.self.user_rate_min))))

(* The part of C2 that holds: the same statement for rate_min < rate_max.  *)
C2_HoldsForProperRange ==
    (Called /\ inp.fn = "rate_match" /\ BudgetKnown(inp.gig)
        /\ RLt(inp.self.user_rate_min, inp.self.user_rate_max)) =>
        /\ out.ok
        /\ InUnit(out.val)
        /\ WithinRange(inp.self, inp.gig) =>
              out.val = RAdd(Rat(8, 10),
                             RMul(Rat(2, 10),
                                  RDiv(RSub(EffectiveRate(inp.gig), inp.self.user_rate_min),
                                       RSub(inp.self.user_rate_max, inp.self.user_rate_min))))

(* C9: rate_match returns exactly 1.0 whenever the gig's effective hourly  *)
(* rate is strictly above the profile's rate_max, and exactly 0.5 whenever *)
(* the gig carries no budget information.                                  *)
C9_RateMatchAboveMaxAndUnknown ==
    (Called /\ inp.fn = "rate_match") =>
        /\ (BudgetKnown(inp.gig) /\ RLt(inp.self.user_rate_max, EffectiveRate(inp.gig)))
              => out = Ret(RInt(1))
        /\ ~BudgetKnown(inp.gig) => out = Ret(Rat(1, 2))

(* A fixed-price gig whose budget_max / 40 exceeds rate_max was scored 1.0. *)
C9_Witness ==
    /\ Called /\ inp.fn = "rate_match"
    /\ inp.gig.project_type = "fixed"
    /\ BudgetKnown(inp.gig)
    /\ RLt(inp.self.user_rate_max, EffectiveRate(inp.gig))
    /\ out = Ret(RInt(1))

----------------------------------------------------------------------------
(* SpecClient: _estimate_client_quality applied to two gigs that differ    *)
(* only in the client's rating.                                            *)

RatingGrain == 10

(* Ratings 0 .. 5 in steps of 1/RatingGrain, and None (no rating known). *)
RatingValues == {None} \cup {Rat(k, RatingGrain) : k \in 0..(5 * RatingGrain)}
ReviewValues == {0, 4, 5, 6, 20, 21, 50, 51, 60}

InitClient ==
    /\ RecIdle
    /\ out = NoCall
    /\ \E r1 \in RatingValues, r2 \in RatingValues, n \in ReviewValues :
          inp = [fn |-> "client_quality",
                 gig |-> [client_rating |-> r1, client_reviews |-> n],
                 gig2 |-> [client_rating |-> r2, client_reviews |-> n]]

CallClientQuality ==
    /\ inp.fn = "client_quality"
    /\ ~Called
    /\ out' = Ret(<<estimate_client_quality(inp.gig), estimate_client_quality(inp.gig2)>>)
    /\ UNCHANGED <<inp, recVars>>

NextClient == CallClientQuality

SpecClient == InitClient /\ [][NextClient]_vars

(* The rating as a number: an absent rating counts as 0. *)
RatingOf(gig) == IF gig.client_rating = None THEN RInt(0) ELSE gig.client_rating
Clamp01(x) == RMax(RInt(0), RMin(RInt(1), x))
ClaimBonus(n) ==
    IF n > 50 THEN Rat(1, 10) ELSE IF n > 20 THEN Rat(1, 20)
    ELSE IF n < 5 THEN Rat(-1, 10) ELSE RInt(0)

----------------------------------------------------------------------------
(* SpecSkill: _calculate_skill_match applied to one profile and one gig.   *)

MaxRequired == 3

SkillNames == {"python", "Python", "django", "React", "aws", "sql", "go"}

RECURSIVE SeqsUpTo(_, _)
SeqsUpTo(S, n) ==
    IF n = 0 THEN {<< >>}
    ELSE LET shorter == SeqsUpTo(S, n - 1)
         IN  shorter \cup {Append(q, x) : q \in shorter, x \in S}

SkillsRequiredValues ==
    {[kind |-> "missing"]}
    \cup {[kind |-> "list", items |-> q] : q \in SeqsUpTo(SkillNames, MaxRequired)}

InitSkill ==
    /\ RecIdle
    /\ out = NoCall
    /\ \E ps \in SUBSET SkillNames, sk \in SkillsRequiredValues :
          inp = [fn |-> "skill_match",
                 skills |-> ps,
                 gig |-> [skills_required |-> sk]]

CallSkillMatch ==
    /\ inp.fn = "skill_match"
    /\ ~Called
    /\ out' = calculate_skill_match([user_skills |-> {Lower(s) : s \in inp.skills}], inp.gig)
    /\ UNCHANGED <<inp, recVars>>

NextSkill == CallSkillMatch

SpecSkill == InitSkill /\ [][NextSkill]_vars

(* Skill names up to case: one representative of each class. *)
Canon(s) == IF s = "python" THEN "Python" ELSE s
ProfileSet(i) == {Canon(s) : s \in i.skills}
RequiredSet(i) == {Canon(s) : s \in SeqRange(SkillItems(i.gig.skills_required))}

(* C8: skill_match compares skills case-insensitively as sets; it is 0.5   *)
(* when the gig requires no skills, otherwise min(1, |P /\ R|/|R| +        *)
(* min(0.2, 0.05*|P \ R|)), and always lies in [0,1].                      *)
C8_SkillMatchFormula ==
    (Called /\ inp.fn = "skill_match") =>
        LET P == ProfileSet(inp)
            R == RequiredSet(inp)
        IN  /\ out.ok
            /\ InUnit(out.val)
            /\ R = {} => out.val = Rat(1, 2)
            /\ R # {} =>
                  out.val = RMin(RInt(1),
                                 RAdd(Rat(Cardinality(P \cap R), Cardinality(R)),
                                      RMin(Rat(1, 5), Rat(5 * Cardinality(P \ R), 100))))

(* The profile {Python, django} was matched against [python, django,       *)
(* React] (names differing in case) and scored 2/3.                        *)
C8_Witness ==
    /\ Called /\ inp.fn = "skill_match"
    /\ inp.skills = {"Python", "django"}
    /\ inp.gig.skills_required = [kind |-> "list", items |-> <<"python", "django", "React">>]
    /\ out = Ret(Rat(2, 3))

----------------------------------------------------------------------------
(* SpecScore: _calculate_recommendation_score applied to sub-scores drawn  *)
(* from their documented ranges.                                           *)

ScoreGrain == 4

UnitScores == {Rat(k, ScoreGrain) : k \in 0..ScoreGrain}
WinProbabilities == {Rat(5, 100), Rat(95, 100)} \cup (UnitScores \ {RInt(0), RInt(1)})
CompetitionValues == {0, 7, 25, 50, 75}

InitScore ==
    /\ RecIdle
    /\ out = NoCall
    /\ \E s \in UnitScores, r \in UnitScores, q \in UnitScores,
          w \in WinProbabilities, c \in CompetitionValues :
          inp = [fn |-> "recommendation_score", skill_match |-> s, rate_match |-> r,
                 client_quality |-> q, win_prob |-> w, competition |-> c]

CallRecommendationScore ==
    /\ inp.fn = "recommendation_score"
    /\ ~Called
    /\ out' = Ret(calculate_recommendation_score(inp.skill_match, inp.rate_match,
                     inp.client_quality, inp.competition, inp.win_prob))
    /\ UNCHANGED <<inp, recVars>>

NextScore == CallRecommendationScore

SpecScore == InitScore /\ [][NextScore]_vars

(* The weighted sum of the specification, with its own weights. *)
WeightedSum(i) ==
    RAdd(RAdd(RAdd(RAdd(RMul(Rat(1, 4), i.skill_match), RMul(Rat(1, 5), i.rate_match)),
                   RMul(Rat(1, 5), i.client_quality)),
              RMul(Rat(1, 4), i.win_prob)),
         RMul(Rat(1, 10), RMax(RInt(0), RSub(RInt(1), Rat(i.competition, 50)))))

WeightsSumToOne ==
    RAdd(RAdd(RAdd(RAdd(weights.skill_match, weights.rate_match), weights.client_quality),
              weights.win_probability), weights.competition) = RInt(1)

(* C7 as stated: the recommendation score is exactly the weighted sum      *)
(* 0.25*skill + 0.20*rate + 0.20*client + 0.25*win + 0.10*max(0, 1 -       *)
(* competition/50), the weights sum to 1 and the score lies in [0,1].      *)
C7_ScoreIsWeightedSum ==
    (Called /\ inp.fn = "recommendation_score") =>
        /\ out.val = WeightedSum(inp)
        /\ WeightsSumToOne
        /\ InUnit(out.val)

(* C7 amended: the recommendation score is that weighted sum rounded to 3  *)
(* decimal places (a multiple of 0.001 at most 0.0005 away from it); the   *)
(* weights sum to 1 and the score lies in [0,1].                           *)
C7_ScoreIsRoundedWeightedSum ==
    (Called /\ inp.fn = "recommendation_score") =>
        /\ RLe(RSub(out.val, WeightedSum(inp)), Rat(1, 2000))
        /\ RLe(RSub(WeightedSum(inp), out.val), Rat(1, 2000))
        /\ 1000 % out.val[2] = 0
        /\ WeightsSumToOne
        /\ InUnit(out.val)

(* A score was computed whose weighted sum has more than 3 decimals. *)
C7_Witness ==
    /\ Called /\ inp.fn = "recommendation_score"
    /\ out.val # WeightedSum(inp)
    /\ inp.competition > 0

----------------------------------------------------------------------------
(* SpecPrice: SmartPricingEngine.calculate_optimal_price applied to one    *)
(* gig and profile.                                                        *)

PriceBudgetValues == {None, RInt(0), RInt(20), RInt(60), RInt(800), RInt(1500)}
PriceSkillValues ==
    {[kind |-> "missing"],
     [kind |-> "list", items |-> <<"python">>],
     [kind |-> "list", items |-> <<"go", "Rust">>],
     [kind |-> "list", items |-> <<"python", "ai">>]}
ProposalValues == {0, 3, 5, 15, 20, 21, 30}
SuccessRateValues == {RInt(0), RInt(90), RInt(100)}

InitPrice ==
    /\ RecIdle
    /\ out = NoCall
    /\ \E lo \in PriceBudgetValues, hi \in PriceBudgetValues, sk \in PriceSkillValues,
          n \in ProposalValues, rate \in RateValues, sr \in SuccessRateValues :
          /\ (lo # None /\ hi # None /\ ~Falsy(hi)) => RLe(lo, hi)
          /\ inp = [fn |-> "optimal_price",
                    gig |-> [budget_min |-> lo, budget_max |-> hi,
                             skills_required |-> sk, proposals_count |-> n],
                    profile |-> [hourly_rate_min |-> rate, success_rate |-> sr]]

CallOptimalPrice ==
    /\ inp.fn = "optimal_price"
    /\ ~Called
    /\ out' = calculate_optimal_price(inp.gig, inp.profile)
    /\ UNCHANGED <<inp, recVars>>

NextPrice == CallOptimalPrice

SpecPrice == InitPrice /\ [][NextPrice]_vars

NumericBudget(gig) == gig.budget_min # None /\ gig.budget_max # None

C4_ExampleReached ==
    /\ Called /\ inp.fn = "optimal_price"
    /\ inp.gig.budget_min = RInt(800) /\ inp.gig.budget_max = RInt(1500)
    /\ inp.gig.proposals_count = 3 /\ inp.profile.success_rate = RInt(90)
    /\ out.ok
    /\ RLe(RInt(800), out.val.optimal_price) /\ RLe(out.val.optimal_price, RInt(1650))

----------------------------------------------------------------------------
(* Spec: AIGigRecommender.recommend_gigs called on one batch of gig        *)
(* records, MaxCalls times with the same arguments.                        *)

MaxGigs == 3
MaxCalls == 2

(* Two profiles: the one of the specification's example, and one whose     *)
(* rate range is a single rate.                                            *)
Profiles ==
    {[skills |-> {"python", "django"}, hourly_rate_min |-> RInt(50),
      hourly_rate_max |-> RInt(100), years_experience |-> RInt(5), success_rate |-> RInt(90)],
     [skills |-> {"Python"}, hourly_rate_min |-> RInt(50),
      hourly_rate_max |-> RInt(50), years_experience |-> RInt(3), success_rate |-> RInt(80)]}

(* The kinds of record a batch is made of: two well-formed gigs, a gig     *)
(* without the skills_required key, a gig whose skills_required is None,   *)
(* one whose skills_required is the string "go", and a record that is not  *)
(* a dict at all (None).                                                   *)
GigKinds == {"good", "plain", "missing_skills", "none_skills", "str_skills", "not_dict"}

MakeGig(kind, id) ==
    CASE kind = "good" ->
            [dict |-> TRUE, id |-> id,
             skills_required |-> [kind |-> "list", items |-> <<"python", "django", "React">>],
             budget_min |-> RInt(800), budget_max |-> RInt(3200), project_type |-> "fixed",
             client_rating |-> Rat(48, 10), client_reviews |-> 30, proposals_count |-> 8]
      [] kind = "plain" ->
            [dict |-> TRUE, id |-> id,
             skills_required |-> [kind |-> "list", items |-> <<"Python">>],
             budget_min |-> RInt(40), budget_max |-> RInt(50), project_type |-> "hourly",
             client_rating |-> RInt(4), client_reviews |-> 10, proposals_count |-> 3]
      [] kind = "missing_skills" ->
            [dict |-> TRUE, id |-> id,
             skills_required |-> [kind |-> "missing"],
             budget_min |-> None, budget_max |-> None, project_type |-> "unknown",
             client_rating |-> None, client_reviews |-> 0, proposals_count |-> 25]
      [] kind = "none_skills" ->
            [dict |-> TRUE, id |-> id,
             skills_required |-> [kind |-> "none"],
             budget_min |-> RInt(800), budget_max |-> RInt(3200), project_type |-> "fixed",
             client_rating |-> Rat(48, 10), client_reviews |-> 30, proposals_count |-> 8]
      [] kind = "str_skills" ->
            [dict |-> TRUE, id |-> id,
             skills_required |-> [kind |-> "str", items |-> <<"g", "o">>],
             budget_min |-> None, budget_max |-> None, project_type |-> "unknown",
             client_rating |-> None, client_reviews |-> 0, proposals_count |-> 25]
      [] OTHER -> [dict |-> FALSE]

Init ==
    /\ inp = [fn |-> "none"]
    /\ out = NoCall
    /\ user_profile \in Profiles
    /\ \E kinds \in SeqsUpTo(GigKinds, MaxGigs) :
          available_gigs = [k \in 1..Len(kinds) |-> MakeGig(kinds[k], k)]
    /\ top_n \in 0..MaxGigs
    /\ pc = "idle"
    /\ idx = 0
    /\ recommendations = << >>
    /\ result = << >>
    /\ first_result = << >>
    /\ calls = 0
    /\ engine = << >>
    /\ tasks = << >>
    /\ api_client = << >>
    /\ search = << >>
    /\ agent = << >>
    /\ clock = << >>
    /\ monitor = << >>
    /\ db = << >>
    /\ seen = << >>

(* recommend_gigs is entered: recommendations = []. *)
Recommend ==
    /\ pc = "idle"
    /\ calls < MaxCalls
    /\ pc' = "loop"
    /\ idx' = 1
    /\ recommendations' = << >>
    /\ UNCHANGED <<user_profile, available_gigs, top_n, agent, clock, monitor, db, seen, result, first_result, calls, inp, out,
                 engine, tasks, api_client, search>>

(* One turn of the for loop: the try block, and the except clause when it  *)
(* raised.  An exception of the except clause leaves recommend_gigs.       *)
ScoreGig ==
    /\ pc = "loop"
    /\ idx <= Len(available_gigs)
    /\ LET gig == available_gigs[idx]
           scored == score_gig(UserFeatures(user_profile), gig)
       IN  \/ /\ scored.ok
              /\ recommendations' = Append(recommendations, scored.val)
              /\ idx' = idx + 1
              /\ pc' = pc
           \/ /\ ~scored.ok
              /\ ~handler_raises(gig)
              /\ idx' = idx + 1
              /\ UNCHANGED <<recommendations, pc>>
           \/ /\ ~scored.ok
              /\ handler_raises(gig)
              /\ pc' = "raised"
              /\ UNCHANGED <<recommendations, idx>>
    /\ UNCHANGED <<user_profile, available_gigs, top_n, agent, clock, monitor, db, seen, result, first_result, calls, inp, out,
                 engine, tasks, api_client, search>>

(* After the loop: sort by score, descending, and return the first top_n. *)
SortAndReturn ==
    /\ pc = "loop"
    /\ idx > Len(available_gigs)
    /\ recommendations' = sort_by_score(recommendations, 1, << >>)
    /\ result' = slice_to(recommendations', top_n)
    /\ first_result' = IF calls = 0 THEN result' ELSE first_result
    /\ calls' = calls + 1
    /\ pc' = "idle"
    /\ UNCHANGED <<user_profile, available_gigs, top_n, agent, clock, monitor, db, seen, idx, inp, out,
                 engine, tasks, api_client, search>>

Next == Recommend \/ ScoreGig \/ SortAndReturn

Spec == Init /\ [][Next]_vars

Returned == pc = "idle" /\ calls > 0
ScoredIds == {recommendations[k].gig_id : k \in DOMAIN recommendations}

(* A record the claim calls genuinely malformed: not a dict, or with a     *)
(* skills_required that is not a list.                                     *)
Malformed(gig) ==
    \/ ~gig.dict
    \/ gig.skills_required.kind \notin {"list", "missing"}

(* C1: recommend_gigs never raises to its caller for any batch of gig      *)
(* records: a record that merely lacks skills_required is scored with      *)
(* defaults, and a genuinely malformed record is skipped while every other *)
(* record of the batch is still scored.                                    *)
C1_NeverRaisesAndSkipsOnlyMalformed ==
    /\ pc # "raised"
    /\ Returned =>
          \A k \in DOMAIN available_gigs :
              Malformed(available_gigs[k]) <=> k \notin ScoredIds

(* What holds of the batches whose records are all dicts: the call         *)
(* returns, and a record is skipped exactly when its scoring raised.       *)
C1_DictRecordsNeverRaise ==
    /\ (\A k \in DOMAIN available_gigs : available_gigs[k].dict) => pc # "raised"
    /\ Returned =>
          \A k \in DOMAIN available_gigs :
              k \in ScoredIds <=> score_gig(UserFeatures(user_profile), available_gigs[k]).ok

(* C5: two calls of recommend_gigs with the same profile and gig list      *)
(* return the identical ordered list, and gigs with equal                  *)
(* recommendation_score appear in their input order.                       *)
C5_IdempotentStableRanking ==
    /\ (Returned /\ calls = MaxCalls) => result = first_result
    /\ Returned =>
          \A i \in DOMAIN result : \A j \in DOMAIN result :
              (i < j /\ result[i].recommendation_score = result[j].recommendation_score)
                  => result[i].gig_id < result[j].gig_id

(* The second call returned a list in which two gigs tie. *)
C5_Witness ==
    /\ Returned /\ calls = MaxCalls
    /\ \E i \in DOMAIN result : \E j \in DOMAIN result :
          /\ i < j
          /\ result[i].recommendation_score = result[j].recommendation_score
    /\ \E i \in DOMAIN result : \E j \in DOMAIN result :
          RLt(result[j].recommendation_score, result[i].recommendation_score)

MinOf(a, b) == IF a < b THEN a ELSE b

(* C6: the returned recommendations are in non-increasing score order,     *)
(* there are exactly min(top_n, number scored) of them, and they are the   *)
(* highest-scoring of the successfully scored gigs.                        *)
C6_TopNByScore ==
    Returned =>
        /\ \A i \in DOMAIN result : \A j \in DOMAIN result :
              i < j => RLe(result[j].recommendation_score, result[i].recommendation_score)
        /\ Len(result) = MinOf(top_n, Len(recommendations))
        /\ Len(result) <= top_n
        /\ \A i \in DOMAIN result : result[i].gig_id \in ScoredIds
        /\ \A i \in DOMAIN result : \A j \in DOMAIN result :
              i # j => result[i].gig_id # result[j].gig_id
        /\ \A k \in DOMAIN recommendations :
              (\A i \in DOMAIN result : result[i].gig_id # recommendations[k].gig_id)
                  => \A i \in DOMAIN result :
                         RLe(recommendations[k].recommendation_score,
                             result[i].recommendation_score)

(* A call returned fewer recommendations than were scored, the scores      *)
(* differing and the input not being in score order.                       *)
C6_Witness ==
    /\ Returned
    /\ top_n > 0
    /\ Len(result) = top_n
    /\ Len(recommendations) > top_n
    /\ \E k \in DOMAIN recommendations :
          RLt(recommendations[k].recommendation_score, result[1].recommendation_score)
    /\ result[1].gig_id # 1

----------------------------------------------------------------------------
(* _predict_win_probability called on its own: the engine is built from a  *)
(* profile (success_rate is a percentage there) and the function gets a    *)
(* skill match and a competition estimate.                                 *)

MaxYearsStep == 3

YearsValues == {RInt(5 * k) : k \in 0..MaxYearsStep}
SuccessPercentValues == {RInt(0), RInt(50), RInt(80), RInt(100)}
TierCompetitionValues == {0, 4, 5, 9, 10, 19, 20, 25}

InitWin ==
    /\ RecIdle
    /\ out = NoCall
    /\ \E s \in UnitScores, c \in TierCompetitionValues,
          p \in SuccessPercentValues, y \in YearsValues :
          inp = [fn |-> "win_probability",
                 profile |-> [skills |-> {"python"},
                              hourly_rate_min |-> RInt(25), hourly_rate_max |-> RInt(75),
                              years_experience |-> y, success_rate |-> p],
                 gig |-> [id |-> "g1"],
                 skill_match |-> s,
                 competition |-> c]

CallWinProbability ==
    /\ inp.fn = "win_probability"
    /\ ~Called
    /\ out' = Ret(predict_win_probability(UserFeatures(inp.profile), inp.gig,
                                          inp.skill_match, inp.competition))
    /\ UNCHANGED <<inp, recVars>>

NextWin == CallWinProbability

SpecWin == InitWin /\ [][NextWin]_vars

(* The claim's side of C11. *)
Tier(competition) ==
    IF competition < 5 THEN Rat(3, 10)
    ELSE IF competition < 10 THEN Rat(2, 10)
    ELSE IF competition < 20 THEN Rat(1, 10)
    ELSE Rat(5, 100)

ProfileSuccessFraction(profile) == RDiv(profile.success_rate, RInt(100))

WinSum(i) ==
    RAdd(RAdd(RAdd(RMul(Rat(4, 10), i.skill_match), Tier(i.competition)),
              RMul(Rat(2, 10), ProfileSuccessFraction(i.profile))),
         RMin(Rat(1, 10), RDiv(i.profile.years_experience, RInt(100))))

ClampWin(x) == RMax(Rat(5, 100), RMin(Rat(95, 100), x))

(* C11: the win probability is the clamp to [0.05, 0.95] of                *)
(* 0.4*skill_match + tier(competition) + 0.2*success fraction +            *)
(* min(0.1, years/100), and so always lies within [0.05, 0.95].            *)
C11_WinProbabilityFormula ==
    (inp.fn = "win_probability" /\ Called) =>
        /\ out.ok
        /\ out.val = ClampWin(WinSum(inp))
        /\ RLe(Rat(5, 100), out.val)
        /\ RLe(out.val, Rat(95, 100))

(* A call whose sum is above 0.95 and is returned as 0.95. *)
C11_Witness ==
    /\ inp.fn = "win_probability"
    /\ Called
    /\ RLt(Rat(95, 100), WinSum(inp))
    /\ out.val = Rat(95, 100)

----------------------------------------------------------------------------
(* SpecBid: _calculate_optimal_bid applied to one gig and win probability. *)

BidBudgetValues ==
    {None, RInt(0), RInt(20), Rat(2025, 100), RInt(60), RInt(800), RInt(1500)}
BidWinValues == WinProbabilities \cup {Rat(7, 10)}

InitBid ==
    /\ RecIdle
    /\ out = NoCall
    /\ \E lo \in BidBudgetValues, hi \in BidBudgetValues, t \in ProjectTypes,
          w \in BidWinValues, r \in RateValues :
          /\ (lo # None /\ hi # None) => RLe(lo, hi)
          /\ inp = [fn |-> "optimal_bid",
                    self |-> [user_rate_min |-> r],
                    gig |-> [budget_min |-> lo, budget_max |-> hi, project_type |-> t],
                    win_prob |-> w]

CallOptimalBid ==
    /\ inp.fn = "optimal_bid"
    /\ ~Called
    /\ out' = calculate_optimal_bid(inp.self, inp.gig, inp.win_prob)
    /\ UNCHANGED <<inp, recVars>>

NextBid == CallOptimalBid

SpecBid == InitBid /\ [][NextBid]_vars

(* The claim's side of C12. *)
KnownBudget(gig) ==
    /\ gig.budget_min # None
    /\ gig.budget_max # None
    /\ gig.budget_max # RInt(0)

BidFraction(win_prob) ==
    IF RLt(Rat(7, 10), win_prob) THEN Rat(3, 10)
    ELSE IF RLt(Rat(5, 10), win_prob) THEN Rat(5, 10)
    ELSE Rat(7, 10)

TieredBid(i) ==
    RAdd(i.gig.budget_min,
         RMul(BidFraction(i.win_prob), RSub(i.gig.budget_max, i.gig.budget_min)))

BidFloor(i) ==
    IF i.gig.project_type = "fixed" THEN RMul(i.self.user_rate_min, RInt(40))
    ELSE i.self.user_rate_min

----------------------------------------------------------------------------
(* SpecRisk: _assess_risk_level applied to one triple of sub-scores.       *)

RiskWinValues == WinProbabilities \cup {Rat(3, 10)}
RiskCompetitionValues == {0, 10, 20, 21, 22, 30, 50}

InitRisk ==
    /\ RecIdle
    /\ out = NoCall
    /\ \E q \in UnitScores, c \in RiskCompetitionValues, w \in RiskWinValues :
          inp = [fn |-> "risk_level", client_quality |-> q, competition |-> c, win_prob |-> w]

CallAssessRisk ==
    /\ inp.fn = "risk_level"
    /\ ~Called
    /\ out' = Ret(assess_risk_level(inp.client_quality, inp.competition, inp.win_prob))
    /\ UNCHANGED <<inp, recVars>>

NextRisk == CallAssessRisk

SpecRisk == InitRisk /\ [][NextRisk]_vars

(* The claim's side of C13. *)
RiskPoints(i) ==
    (IF RLt(i.client_quality, Rat(1, 2)) THEN 2 ELSE 0)
    + (IF i.competition > 20 THEN 2 ELSE 0)
    + (IF RLt(i.win_prob, Rat(3, 10)) THEN 1 ELSE 0)

(* C13: the risk level is 'high' iff the risk points are at least 4,       *)
(* 'medium' iff they are 2 or 3 and 'low' otherwise: exactly one of the    *)
(* three levels for every input.                                           *)
C13_RiskLevelFromPoints ==
    (inp.fn = "risk_level" /\ Called) =>
        /\ out.ok
        /\ out.val \in {"high", "medium", "low"}
        /\ (out.val = "high") <=> (RiskPoints(inp) >= 4)
        /\ (out.val = "medium") <=> (RiskPoints(inp) >= 2 /\ RiskPoints(inp) < 4)
        /\ (out.val = "low") <=> (RiskPoints(inp) < 2)

(* A call with 3 risk points (poor client, weak win probability, little   *)
(* competition) was rated 'medium'.                                        *)
C13_Witness ==
    /\ inp.fn = "risk_level" /\ Called
    /\ RiskPoints(inp) = 3
    /\ inp.competition = 20
    /\ out.val = "medium"

----------------------------------------------------------------------------
(* MarketIntelligence.analyze_skill_demand                                  *)

(* gig.get('platform', 'unknown'): "absent" stands for a gig without the   *)
(* key.                                                                    *)
platform_of(gig) == IF gig.platform = "absent" THEN "unknown" ELSE gig.platform

(* The gigs whose skills_required holds the skill, compared in lower case. *)
relevant_gigs(skill, gigs) ==
    LET requires(gig) ==
            Lower(skill) \in {Lower(s) : s \in SeqRange(SkillItems(gig.skills_required))}
    IN  SelectSeq(gigs, requires)

(* Mutant: the demand score without its cap at 1. *)
demand_score_uncapped(skill_gigs, total_gigs) ==
    RMul(Rat(skill_gigs, IF total_gigs > 1 THEN total_gigs ELSE 1), RInt(10))

(* min(1.0, skill_gigs / max(1, total_gigs) * 10) *)
demand_score(skill_gigs, total_gigs) ==
    RMin(RInt(1), RMul(Rat(skill_gigs, IF total_gigs > 1 THEN total_gigs ELSE 1), RInt(10)))

(* The effective hourly rates of the relevant gigs that carry a budget. *)
RECURSIVE rates(_, _)
rates(relevant, k) ==
    IF k > Len(relevant) THEN << >>
    ELSE IF Falsy(relevant[k].budget_max) THEN rates(relevant, k + 1)
    ELSE <<estimated_hourly(relevant[k])>> \o rates(relevant, k + 1)

RECURSIVE RSum(_, _)
RSum(q, k) == IF k > Len(q) THEN RInt(0) ELSE RAdd(q[k], RSum(q, k + 1))

RECURSIVE proposals_sum(_, _)
proposals_sum(relevant, k) ==
    IF k > Len(relevant) THEN 0
    ELSE relevant[k].proposals_count + proposals_sum(relevant, k + 1)

(* platform_counts: a dict keeps its keys in the order of first insertion. *)
RECURSIVE platform_keys(_, _, _)
platform_keys(relevant, k, keys) ==
    IF k > Len(relevant) THEN keys
    ELSE platform_keys(relevant, k + 1,
             IF platform_of(relevant[k]) \in SeqRange(keys) THEN keys
             ELSE Append(keys, platform_of(relevant[k])))

platform_counts(relevant, platform) ==
    Cardinality({k \in DOMAIN relevant : platform_of(relevant[k]) = platform})

(* Mutant: equal counts placed in front of the platforms already sorted. *)
insert_by_count_ties_first(sorted, x) ==
    LET before == {k \in 1..Len(sorted) : \A j \in 1..k : x[2] < sorted[j][2]}
        n == Cardinality(before)
    IN  SubSeq(sorted, 1, n) \o <<x>> \o SubSeq(sorted, n + 1, Len(sorted))

(* sorted(items, key=count, reverse=True) is stable: an item goes behind   *)
(* every item already placed whose count is not lower.                     *)
insert_by_count(sorted, x) ==
    LET before == {k \in 1..Len(sorted) : \A j \in 1..k : x[2] <= sorted[j][2]}
        n == Cardinality(before)
    IN  SubSeq(sorted, 1, n) \o <<x>> \o SubSeq(sorted, n + 1, Len(sorted))

RECURSIVE sort_by_count(_, _, _)
sort_by_count(items, k, sorted) ==
    IF k > Len(items) THEN sorted
    ELSE sort_by_count(items, k + 1, insert_by_count(sorted, items[k]))

top_platforms(relevant) ==
    LET keys == platform_keys(relevant, 1, << >>)
        items == [k \in DOMAIN keys |-> <<keys[k], platform_counts(relevant, keys[k])>>]
        sorted == slice_to(sort_by_count(items, 1, << >>), 3)
    IN  [k \in DOMAIN sorted |-> sorted[k][1]]

analyze_skill_demand(skill, gigs) ==
    LET relevant == relevant_gigs(skill, gigs)
    IN  IF Len(relevant) = 0
        THEN [skill |-> skill, demand_score |-> RInt(0), average_rate |-> RInt(0),
              rate_trend |-> "unknown", competition_level |-> "unknown",
              growth_projection |-> RInt(0), top_platforms |-> << >>,
              recommended_action |-> "No recent data"]
        ELSE
        LET score == demand_score(Len(relevant), Len(gigs))
            rs == rates(relevant, 1)
            avg_rate == IF Len(rs) > 0 THEN RDiv(RSum(rs, 1), RInt(Len(rs))) ELSE RInt(0)
            avg_proposals == Rat(proposals_sum(relevant, 1), Len(relevant))
            competition == IF RLt(avg_proposals, RInt(10)) THEN "low"
                           ELSE IF RLt(avg_proposals, RInt(20)) THEN "medium"
                           ELSE "high"
            recommendation ==
                IF RLt(Rat(7, 10), score) /\ RLt(RInt(60), avg_rate) THEN "high demand"
                ELSE IF RLt(Rat(5, 10), score) THEN "solid demand"
                ELSE "lower demand"
        IN  [skill |-> skill, demand_score |-> RRound(score, 1000),
             average_rate |-> RRound(avg_rate, 100),
             rate_trend |-> "stable", competition_level |-> competition,
             growth_projection |-> RInt(0), top_platforms |-> top_platforms(relevant),
             recommended_action |-> recommendation]

----------------------------------------------------------------------------
(* SpecMarket: analyze_skill_demand applied to one skill and corpus.  The  *)
(* corpus is any sequence of up to MaxHead gigs followed by up to          *)
(* MaxFiller gigs that ask for another skill.                              *)

MaxHead == 4
MaxFiller == 11

MarketGigs ==
    {[platform |-> "upwork", skills_required |-> [kind |-> "list", items |-> <<"Python", "django">>],
      budget_max |-> RInt(80), project_type |-> "hourly", proposals_count |-> 5],
     [platform |-> "fiverr", skills_required |-> [kind |-> "list", items |-> <<"python">>],
      budget_max |-> RInt(2000), project_type |-> "fixed", proposals_count |-> 25],
     [platform |-> "freelancer", skills_required |-> [kind |-> "list", items |-> <<"aws", "python">>],
      budget_max |-> None, project_type |-> "fixed", proposals_count |-> 12],
     [platform |-> "absent", skills_required |-> [kind |-> "list", items |-> <<"Python">>],
      budget_max |-> RInt(45), project_type |-> "hourly", proposals_count |-> 0],
     [platform |-> "fiverr", skills_required |-> [kind |-> "missing"],
      budget_max |-> RInt(500), project_type |-> "fixed", proposals_count |-> 3],
     [platform |-> "upwork", skills_required |-> [kind |-> "list", items |-> <<"React">>],
      budget_max |-> RInt(60), project_type |-> "hourly", proposals_count |-> 30]}

FillerGig ==
    [platform |-> "guru", skills_required |-> [kind |-> "list", items |-> <<"sql">>],
     budget_max |-> RInt(30), project_type |-> "hourly", proposals_count |-> 8]

MarketSkills == {"Python", "go"}

InitMarket ==
    /\ RecIdle
    /\ out = NoCall
    /\ \E head \in SeqsUpTo(MarketGigs, MaxHead), n \in 0..MaxFiller, skill \in MarketSkills :
          inp = [fn |-> "skill_demand",
                 skill |-> skill,
                 gigs |-> head \o [k \in 1..n |-> FillerGig]]

CallAnalyzeSkillDemand ==
    /\ inp.fn = "skill_demand"
    /\ ~Called
    /\ out' = Ret(analyze_skill_demand(inp.skill, inp.gigs))
    /\ UNCHANGED <<inp, recVars>>

NextMarket == CallAnalyzeSkillDemand

SpecMarket == InitMarket /\ [][NextMarket]_vars

(* The claim's side of C14 and C15. *)
Requires(gig, skill) ==
    \E k \in DOMAIN SkillItems(gig.skills_required) :
        Lower(SkillItems(gig.skills_required)[k]) = Lower(skill)

Matching(i) == {k \in DOMAIN i.gigs : Requires(i.gigs[k], i.skill)}

Demand(i) == RMin(RInt(1), RMul(Rat(Cardinality(Matching(i)), Len(i.gigs)), RInt(10)))

IsSentinel(insight) ==
    /\ insight.demand_score = RInt(0)
    /\ insight.average_rate = RInt(0)
    /\ insight.competition_level = "unknown"
    /\ insight.top_platforms = << >>

PlatformName(gig) == IF gig.platform = "absent" THEN "unknown" ELSE gig.platform

MatchesOn(i, p) == {k \in Matching(i) : PlatformName(i.gigs[k]) = p}

MatchingPlatforms(i) == {PlatformName(i.gigs[k]) : k \in Matching(i)}

FirstSeen(i, p) == CHOOSE k \in MatchesOn(i, p) : \A j \in MatchesOn(i, p) : k <= j

(* Platform p ranks before platform q: more matching gigs, or as many and  *)
(* seen first.                                                             *)
RanksBefore(i, p, q) ==
    \/ Cardinality(MatchesOn(i, p)) > Cardinality(MatchesOn(i, q))
    \/ /\ Cardinality(MatchesOn(i, p)) = Cardinality(MatchesOn(i, q))
       /\ FirstSeen(i, p) < FirstSeen(i, q)

(* C15: top_platforms holds at most 3 platforms of matching gigs, the      *)
(* first ones in the order of non-increasing number of matching gigs,      *)
(* platforms with equal counts in the order they were first seen.          *)
C15_TopPlatformsOrdered ==
    (inp.fn = "skill_demand" /\ Called /\ out.ok) =>
        LET tp == out.val.top_platforms
        IN  /\ Len(tp) <= 3
            /\ Len(tp) = IF Cardinality(MatchingPlatforms(inp)) < 3
                         THEN Cardinality(MatchingPlatforms(inp)) ELSE 3
            /\ \A k \in DOMAIN tp : tp[k] \in MatchingPlatforms(inp)
            /\ \A j, k \in DOMAIN tp : j < k => RanksBefore(inp, tp[j], tp[k])
            /\ \A p \in MatchingPlatforms(inp) \ SeqRange(tp) :
                  \A k \in DOMAIN tp : RanksBefore(inp, tp[k], p)

(* Four platforms have one matching gig each and the first three seen are  *)
(* returned, in that order.                                                *)
C15_Witness ==
    /\ inp.fn = "skill_demand" /\ Called /\ out.ok
    /\ Cardinality(MatchingPlatforms(inp)) = 4
    /\ Len(out.val.top_platforms) = 3
    /\ \A k \in 1..3 : out.val.top_platforms[k] = PlatformName(inp.gigs[k])

----------------------------------------------------------------------------
(* FreelancerAPIClient._parse_api_response: the raw projects of one        *)
(* response turned into normalized gigs.                                   *)
(* A raw project is modelled by the fields the parser reads:               *)
(*   type        : "fixed", "hourly", or "absent"                          *)
(*   budget      : minimum and maximum, None where the key is absent       *)
(*   jobs        : the names of the required skills (empty when absent)    *)
(*   description : kind "absent", "null" (JSON null) or "text" of length   *)
(*                 len                                                     *)
(*   overall     : owner.reputation.entire_history.overall, None if absent *)
(* The gig's id f"freelancer_{project_id}" is the pair of prefix and id.   *)

(* BaseAPIClient._calculate_match_score: the share of required skills the  *)
(* user has, 0.5 when nothing is required.                                 *)
client_calculate_match_score(user_skills, required_skills) ==
    IF Len(required_skills) = 0 THEN Rat(5, 10)
    ELSE LET user_skills_lower == {Lower(s) : s \in SeqRange(user_skills)}
             matches == Cardinality({k \in DOMAIN required_skills :
                                        Lower(required_skills[k]) \in user_skills_lower})
         IN  Rat(matches, Len(required_skills))

(* description[:500] *)
truncate_description(description) ==
    IF description.kind = "absent" THEN 0
    ELSE IF description.len < 500 THEN description.len ELSE 500

(* One pass of the loop body: Raise(e) when a statement of the body        *)
(* raises, Ret(<<>>) when the project is filtered out (continue),          *)
(* Ret(<<gig>>) when a gig is appended.                                    *)
normalize_project(project, criteria) ==
    LET budget_min == project.budget.minimum
        budget_max == project.budget.maximum
        project_type == IF project.type \in {"fixed", "hourly"} THEN project.type ELSE "unknown"
        match_score == client_calculate_match_score(criteria.skills, project.jobs)
    IN  IF project.type = "hourly" /\ ~Falsy(budget_max) /\ budget_min = None
        THEN Raise("TypeError")
        ELSE IF RLt(match_score, criteria.min_match_score) THEN Ret(<< >>)
        ELSE IF project.description.kind = "null" THEN Raise("TypeError")
        ELSE Ret(<<[id |-> <<"freelancer", project.id>>,
                    platform |-> "freelancer",
                    description |-> truncate_description(project.description),
                    skills_required |-> project.jobs,
                    match_score |-> RRound(match_score, 100),
                    client_rating |-> project.overall,
                    project_type |-> project_type,
                    budget_min |-> budget_min,
                    budget_max |-> budget_max,
                    hourly_rate |->
                        IF project.type = "hourly"
                        THEN IF ~Falsy(budget_max)
                             THEN RDiv(RAdd(budget_min, budget_max), RInt(2))
                             ELSE budget_min
                        ELSE None]>>)

(* The loop runs inside one try block whose except clause prints the       *)
(* error: the first project that raises ends the loop, and the gigs        *)
(* appended so far are returned.                                           *)
RECURSIVE parse_api_response_from(_, _, _, _)
parse_api_response_from(projects, k, gigs, criteria) ==
    IF k > Len(projects) THEN gigs
    ELSE LET r == normalize_project(projects[k], criteria)
         IN  IF ~r.ok THEN gigs
             ELSE parse_api_response_from(projects, k + 1, gigs \o r.val, criteria)

parse_api_response(projects, criteria) ==
    parse_api_response_from(projects, 1, << >>, criteria)

----------------------------------------------------------------------------
(* SpecNormalize: _parse_api_response applied to one response.             *)

MaxProjects == 3

RawProjects ==
    {[id |-> "complete", type |-> "hourly",
      budget |-> [minimum |-> RInt(20), maximum |-> RInt(50)],
      jobs |-> <<"Python", "sql">>, description |-> [kind |-> "text", len |-> 120],
      overall |-> Rat(48, 10)],
     [id |-> "long", type |-> "fixed",
      budget |-> [minimum |-> RInt(500), maximum |-> RInt(1500)],
      jobs |-> <<"python">>, description |-> [kind |-> "text", len |-> 2000],
      overall |-> None],
     [id |-> "bare", type |-> "absent",
      budget |-> [minimum |-> None, maximum |-> None],
      jobs |-> << >>, description |-> [kind |-> "absent", len |-> 0],
      overall |-> None],
     [id |-> "no_minimum", type |-> "hourly",
      budget |-> [minimum |-> None, maximum |-> RInt(50)],
      jobs |-> <<"python">>, description |-> [kind |-> "text", len |-> 500],
      overall |-> Rat(45, 10)],
     [id |-> "null_description", type |-> "fixed",
      budget |-> [minimum |-> RInt(100), maximum |-> None],
      jobs |-> <<"python">>, description |-> [kind |-> "null", len |-> 0],
      overall |-> Rat(50, 10)],
     [id |-> "other_skill", type |-> "fixed",
      budget |-> [minimum |-> RInt(100), maximum |-> RInt(300)],
      jobs |-> <<"go">>, description |-> [kind |-> "text", len |-> 501],
      overall |-> Rat(30, 10)]}

MatchScoreFloors == {RInt(0), Rat(1, 4)}

InitNormalize ==
    /\ RecIdle
    /\ out = NoCall
    /\ \E projects \in SeqsUpTo(RawProjects, MaxProjects), floor \in MatchScoreFloors :
          inp = [fn |-> "parse_api_response",
                 projects |-> projects,
                 criteria |-> [skills |-> <<"Python", "django">>, min_match_score |-> floor]]

CallParseApiResponse ==
    /\ inp.fn = "parse_api_response"
    /\ ~Called
    /\ out' = Ret(parse_api_response(inp.projects, inp.criteria))
    /\ UNCHANGED <<inp, recVars>>

NextNormalize == CallParseApiResponse

SpecNormalize == InitNormalize /\ [][NextNormalize]_vars

(* The claim's side of C16. *)
PassesFilters(project, criteria) ==
    ~RLt(client_calculate_match_score(criteria.skills, project.jobs), criteria.min_match_score)

Kept(i) == SelectSeq(i.projects, LAMBDA p : PassesFilters(p, i.criteria))

DocumentedDefaults(project, gig) ==
    /\ gig.id = <<"freelancer", project.id>>
    /\ gig.budget_min = project.budget.minimum
    /\ gig.budget_max = project.budget.maximum
    /\ gig.skills_required = project.jobs
    /\ gig.client_rating = (IF project.overall = None THEN RInt(0) ELSE project.overall)
    /\ gig.description <= 500

(* C16: normalizing never raises, and every raw record the search filters  *)
(* do not exclude yields one normalized gig, in order, with None for       *)
(* absent budgets, no skills for absent skills, 0 for an absent client     *)
(* rating and a description of at most 500 characters.                     *)
C16_EveryRecordNormalized ==
    (inp.fn = "parse_api_response" /\ Called) =>
        /\ out.ok
        /\ Len(out.val) = Len(Kept(inp))
        /\ \A k \in DOMAIN out.val : DocumentedDefaults(Kept(inp)[k], out.val[k])

(* What does hold: the parser never raises, returns gigs of records that   *)
(* pass the filters, in order and without repetition, each with a          *)
(* description of at most 500 characters.                                  *)
C16_NeverRaisesAndTruncates ==
    (inp.fn = "parse_api_response" /\ Called) =>
        /\ out.ok
        /\ Len(out.val) <= Len(Kept(inp))
        /\ \A k \in DOMAIN out.val :
              /\ out.val[k].id = <<"freelancer", Kept(inp)[k].id>>
              /\ out.val[k].description <= 500

(* Records are dropped only from the first one on whose fields make the    *)
(* loop body raise.                                                        *)
C16_DropsOnlyAfterRaise ==
    (inp.fn = "parse_api_response" /\ Called /\ Len(out.val) < Len(Kept(inp))) =>
        \E k \in DOMAIN inp.projects : ~normalize_project(inp.projects[k], inp.criteria).ok

----------------------------------------------------------------------------
(* ClientIntelligenceSystem.research_client                                 *)

rating_fraction(rating) == IF ~Falsy(rating) THEN RDiv(rating, RInt(5)) ELSE Rat(5, 10)

calculate_quality_score(rating, reviews, spent, projects) ==
    LET rating_score == rating_fraction(rating)
        exp_score == IF projects > 50 THEN RInt(1)
                     ELSE IF projects > 20 THEN Rat(8, 10)
                     ELSE IF projects > 5 THEN Rat(6, 10)
                     ELSE Rat(4, 10)
        spend_score == IF spent > 50000 THEN RInt(1)
                       ELSE IF spent > 10000 THEN Rat(8, 10)
                       ELSE IF spent > 1000 THEN Rat(6, 10)
                       ELSE Rat(4, 10)
        review_score == IF reviews > 50 THEN RInt(1)
                        ELSE IF reviews > 10 THEN Rat(7, 10)
                        ELSE Rat(5, 10)
        total == RAdd(RAdd(RMul(rating_score, Rat(4, 10)), RMul(exp_score, Rat(3, 10))),
                      RAdd(RMul(spend_score, Rat(2, 10)), RMul(review_score, Rat(1, 10))))
    IN  RRound(total, 1000)

estimate_payment_reliability(rating, spent, projects) ==
    LET confidence == IF projects > 20 THEN RInt(1)
                      ELSE IF projects > 5 THEN Rat(8, 10)
                      ELSE Rat(6, 10)
    IN  RRound(RMul(rating_fraction(rating), confidence), 1000)

estimate_communication(rating, reviews) ==
    IF reviews > 20 THEN rating_fraction(rating)
    ELSE RMul(rating_fraction(rating), Rat(8, 10))

identify_red_flags(client_data) ==
    (IF RLt(client_data.rating, RInt(4)) /\ client_data.reviews > 5
     THEN <<"below-average rating">> ELSE << >>)
    \o (IF client_data.total_projects > 10 /\ client_data.reviews < 3
        THEN <<"few reviews">> ELSE << >>)
    \o (IF RLt(client_data.rating, Rat(35, 10)) THEN <<"low rating">> ELSE << >>)

identify_green_flags(client_data) ==
    (IF RLe(Rat(47, 10), client_data.rating) /\ client_data.reviews > 10
     THEN <<"excellent rating">> ELSE << >>)
    \o (IF client_data.total_spent > 50000 THEN <<"high-spending">> ELSE << >>)
    \o (IF client_data.total_projects > 50 THEN <<"experienced">> ELSE << >>)
    \o (IF RLe(Rat(45, 10), client_data.rating) THEN <<"high satisfaction">> ELSE << >>)

generate_client_recommendation(quality_score, red_flags, green_flags) ==
    IF RLe(Rat(8, 10), quality_score) /\ Len(red_flags) = 0 THEN "HIGHLY RECOMMENDED"
    ELSE IF RLe(Rat(6, 10), quality_score) /\ Len(red_flags) < 2 THEN "PROCEED WITH CAUTION"
    ELSE IF RLt(quality_score, Rat(4, 10)) \/ Len(red_flags) > 2 THEN "HIGH RISK"
    ELSE "MODERATE QUALITY"

research_client(client_data) ==
    LET rating == client_data.rating
        reviews == client_data.reviews
        total_spent == client_data.total_spent
        total_projects == client_data.total_projects
        quality_score == calculate_quality_score(rating, reviews, total_spent, total_projects)
        red_flags == identify_red_flags(client_data)
        green_flags == identify_green_flags(client_data)
    IN  [client_id |-> client_data.id,
         quality_score |-> quality_score,
         payment_reliability |-> estimate_payment_reliability(rating, total_spent, total_projects),
         communication_score |-> estimate_communication(rating, reviews),
         project_success_rate |-> rating_fraction(rating),
         average_rating |-> rating,
         total_spent |-> total_spent,
         total_projects |-> total_projects,
         red_flags |-> red_flags,
         green_flags |-> green_flags,
         recommendation |-> generate_client_recommendation(quality_score, red_flags, green_flags)]

----------------------------------------------------------------------------
(* SpecConcurrent: two calls of the core operations running at the same    *)
(* time on the same engine objects and the same supplied records.  A       *)
(* recommend_gigs call advances one turn of its for loop at a time; the    *)
(* other three operations have no loop over shared data and are one step.  *)

MaxTaskGigs == 2

Tasks == {1, 2}
Operations == {"recommend_gigs", "calculate_optimal_price",
               "analyze_skill_demand", "research_client"}
TaskGigKinds == {"good", "plain", "none_skills", "not_dict"}

(* The objects the calls are made on: AIGigRecommender(profile),           *)
(* SmartPricingEngine() and MarketIntelligence() as __init__ leaves them;  *)
(* ClientIntelligenceSystem has no fields.  A TTLCache is the set of its   *)
(* entries.                                                                *)
NewEngine(profile) ==
    [recommender |-> [user_profile |-> profile,
                      history |-> << >>,
                      cache |-> {},
                      user_skills |-> UserFeatures(profile).user_skills,
                      user_rate_min |-> UserFeatures(profile).user_rate_min,
                      user_rate_max |-> UserFeatures(profile).user_rate_max,
                      user_experience |-> UserFeatures(profile).user_experience,
                      success_rate |-> UserFeatures(profile).success_rate],
     pricing |-> [market_data |-> << >>, cache |-> {}],
     market |-> [cache |-> {}]]

NewTask(op) ==
    [op |-> op, pc |-> "start", idx |-> 0, recommendations |-> << >>, result |-> NoCall]

InitConcurrent ==
    /\ user_profile = << >>
    /\ available_gigs = << >>
    /\ top_n = 0
    /\ pc = "idle"
    /\ idx = 0
    /\ recommendations = << >>
    /\ result = << >>
    /\ first_result = << >>
    /\ calls = 0
    /\ api_client = << >>
    /\ search = << >>
    /\ agent = << >>
    /\ clock = << >>
    /\ monitor = << >>
    /\ db = << >>
    /\ seen = << >>
    /\ out = NoCall
    /\ \E profile \in Profiles, kinds \in SeqsUpTo(TaskGigKinds, MaxTaskGigs), n \in {1, 2} :
          /\ inp = [fn |-> "concurrent",
                    user_profile |-> profile,
                    available_gigs |-> [k \in 1..Len(kinds) |-> MakeGig(kinds[k], k)],
                    top_n |-> n,
                    gig |-> MakeGig("good", 0),
                    skill |-> "Python",
                    gigs |-> <<CHOOSE g \in MarketGigs : g.platform = "freelancer", FillerGig>>,
                    client_data |-> [id |-> "c1", rating |-> Rat(48, 10), reviews |-> 30,
                                     total_spent |-> 20000, total_projects |-> 12]]
          /\ engine = NewEngine(profile)
    /\ tasks \in [Tasks -> {NewTask(op) : op \in Operations}]

(* Mutant: the turn's recommendation replaces the list instead of being    *)
(* appended to it.                                                         *)
append_recommendation_overwrite(recs, recommendation) == <<recommendation>>

(* recommendations.append(recommendation) on the call's local list. *)
append_recommendation(recs, recommendation) == Append(recs, recommendation)

(* recommend_gigs is entered by task t: recommendations = []. *)
TaskRecommend(t) ==
    /\ tasks[t].op = "recommend_gigs"
    /\ tasks[t].pc = "start"
    /\ tasks' = [tasks EXCEPT ![t].pc = "loop", ![t].idx = 1, ![t].recommendations = << >>]
    /\ UNCHANGED <<inp, out, engine, user_profile, available_gigs, top_n, agent, clock, monitor, db, seen, pc, idx,
                   recommendations, result, first_result, calls, api_client, search>>

(* One turn of task t's for loop. *)
TaskScoreGig(t) ==
    /\ tasks[t].pc = "loop"
    /\ tasks[t].idx <= Len(inp.available_gigs)
    /\ LET gig == inp.available_gigs[tasks[t].idx]
           scored == score_gig(engine.recommender, gig)
       IN  \/ /\ scored.ok
              /\ tasks' = [tasks EXCEPT
                              ![t].recommendations =
                                  append_recommendation(tasks[t].recommendations, scored.val),
                              ![t].idx = tasks[t].idx + 1]
           \/ /\ ~scored.ok
              /\ ~handler_raises(gig)
              /\ tasks' = [tasks EXCEPT ![t].idx = tasks[t].idx + 1]
           \/ /\ ~scored.ok
              /\ handler_raises(gig)
              /\ tasks' = [tasks EXCEPT ![t].pc = "done",
                                        ![t].result = Raise("AttributeError")]
    /\ UNCHANGED <<inp, out, engine, user_profile, available_gigs, top_n, agent, clock, monitor, db, seen, pc, idx,
                   recommendations, result, first_result, calls, api_client, search>>

(* After the loop of task t: sort and return the first top_n. *)
TaskSortAndReturn(t) ==
    /\ tasks[t].pc = "loop"
    /\ tasks[t].idx > Len(inp.available_gigs)
    /\ LET sorted == sort_by_score(tasks[t].recommendations, 1, << >>)
       IN  tasks' = [tasks EXCEPT ![t].recommendations = sorted,
                                  ![t].pc = "done",
                                  ![t].result = Ret(slice_to(sorted, inp.top_n))]
    /\ UNCHANGED <<inp, out, engine, user_profile, available_gigs, top_n, agent, clock, monitor, db, seen, pc, idx,
                   recommendations, result, first_result, calls, api_client, search>>

TaskOptimalPrice(t) ==
    /\ tasks[t].op = "calculate_optimal_price"
    /\ tasks[t].pc = "start"
    /\ tasks' = [tasks EXCEPT ![t].pc = "done",
                              ![t].result = calculate_optimal_price(inp.gig, inp.user_profile)]
    /\ UNCHANGED <<inp, out, engine, user_profile, available_gigs, top_n, agent, clock, monitor, db, seen, pc, idx,
                   recommendations, result, first_result, calls, api_client, search>>

TaskSkillDemand(t) ==
    /\ tasks[t].op = "analyze_skill_demand"
    /\ tasks[t].pc = "start"
    /\ tasks' = [tasks EXCEPT ![t].pc = "done",
                              ![t].result = Ret(analyze_skill_demand(inp.skill, inp.gigs))]
    /\ UNCHANGED <<inp, out, engine, user_profile, available_gigs, top_n, agent, clock, monitor, db, seen, pc, idx,
                   recommendations, result, first_result, calls, api_client, search>>

TaskResearchClient(t) ==
    /\ tasks[t].op = "research_client"
    /\ tasks[t].pc = "start"
    /\ tasks' = [tasks EXCEPT ![t].pc = "done",
                              ![t].result = Ret(research_client(inp.client_data))]
    /\ UNCHANGED <<inp, out, engine, user_profile, available_gigs, top_n, agent, clock, monitor, db, seen, pc, idx,
                   recommendations, result, first_result, calls, api_client, search>>

NextConcurrent ==
    \E t \in Tasks :
        \/ TaskRecommend(t)
        \/ TaskScoreGig(t)
        \/ TaskSortAndReturn(t)
        \/ TaskOptimalPrice(t)
        \/ TaskSkillDemand(t)
        \/ TaskResearchClient(t)

SpecConcurrent == InitConcurrent /\ [][NextConcurrent]_vars

(* The claim's side of C17: what each operation returns when it runs alone *)
(* from start to end.                                                      *)
RECURSIVE ScoredAlone(_, _, _, _)
ScoredAlone(self, gigs, k, recs) ==
    IF k > Len(gigs) THEN Ret(recs)
    ELSE LET scored == score_gig(self, gigs[k])
         IN  IF scored.ok THEN ScoredAlone(self, gigs, k + 1, Append(recs, scored.val))
             ELSE IF gigs[k].dict THEN ScoredAlone(self, gigs, k + 1, recs)
             ELSE Raise("AttributeError")

RunAlone(op, i) ==
    CASE op = "recommend_gigs" ->
            LET scored == ScoredAlone(UserFeatures(i.user_profile), i.available_gigs, 1, << >>)
            IN  IF scored.ok
                THEN Ret(slice_to(sort_by_score(scored.val, 1, << >>), i.top_n))
                ELSE scored
      [] op = "calculate_optimal_price" -> calculate_optimal_price(i.gig, i.user_profile)
      [] op = "analyze_skill_demand" -> Ret(analyze_skill_demand(i.skill, i.gigs))
      [] OTHER -> Ret(research_client(i.client_data))

ResultsAsAlone ==
    inp.fn = "concurrent" =>
        \A t \in Tasks : tasks[t].pc = "done" => tasks[t].result = RunAlone(tasks[t].op, inp)

SuppliedAndEngineUnchanged ==
    /\ inp' = inp
    /\ engine' = engine

(* C17: no step of a core operation changes the supplied profile, gigs or  *)
(* client record or any field of the engine objects, and every call        *)
(* returns, under any interleaving with another call, what it returns when *)
(* run alone.                                                              *)
C17_PureUnderInterleaving ==
    /\ []ResultsAsAlone
    /\ [][SuppliedAndEngineUnchanged]_vars

(* A pricing call has returned while a recommend_gigs call on the same     *)
(* engine is in the middle of its loop, with one recommendation collected. *)
C17_Witness ==
    /\ inp.fn = "concurrent"
    /\ tasks[1].op = "recommend_gigs"
    /\ tasks[1].pc = "loop"
    /\ tasks[1].idx = 2
    /\ Len(tasks[1].recommendations) = 1
    /\ tasks[2].op = "calculate_optimal_price"
    /\ tasks[2].pc = "done"
    /\ tasks[2].result.ok
    /\ engine = NewEngine(inp.user_profile)

----------------------------------------------------------------------------
(* freelance_server: the helper functions and the search_gigs tool.        *)
(* An optional string argument that is None is the string "None" below,    *)
(* an optional list is a tagged value of kind "none" or "list".            *)

(* calculate_match_score of the server: the share of required skills the   *)
(* user has, 0.5 when nothing is required.                                 *)
calculate_match_score(user_skills, required_skills) ==
    IF Len(required_skills) = 0 THEN Rat(5, 10)
    ELSE LET user_skills_lower == {Lower(s) : s \in SeqRange(user_skills)}
             matches == Cardinality({k \in DOMAIN required_skills :
                                        Lower(required_skills[k]) \in user_skills_lower})
         IN  Rat(matches, Len(required_skills))

(* Mutant: a rate above the user's range scored above 1. *)
check_rate_compatibility_generous(user_min, user_max, gig_budget_min, gig_budget_max, hourly_rate) ==
    IF ~Falsy(hourly_rate)
    THEN IF RLe(user_min, hourly_rate) /\ RLe(hourly_rate, user_max) THEN RInt(1)
         ELSE IF RLt(hourly_rate, user_min)
         THEN RMax(RInt(0), RSub(RInt(1), RDiv(RSub(user_min, hourly_rate), user_min)))
         ELSE Rat(17, 10)
    ELSE IF ~Falsy(gig_budget_max)
    THEN LET estimated == RDiv(gig_budget_max, RInt(40))
         IN  IF RLe(user_min, estimated) /\ RLe(estimated, user_max) THEN RInt(1)
             ELSE IF RLt(estimated, user_min)
             THEN RMax(RInt(0), RSub(RInt(1), RDiv(RSub(user_min, estimated), user_min)))
             ELSE Rat(8, 10)
    ELSE Rat(5, 10)

check_rate_compatibility(user_min, user_max, gig_budget_min, gig_budget_max, hourly_rate) ==
    IF ~Falsy(hourly_rate)
    THEN IF RLe(user_min, hourly_rate) /\ RLe(hourly_rate, user_max) THEN RInt(1)
         ELSE IF RLt(hourly_rate, user_min)
         THEN RMax(RInt(0), RSub(RInt(1), RDiv(RSub(user_min, hourly_rate), user_min)))
         ELSE Rat(7, 10)
    ELSE IF ~Falsy(gig_budget_max)
    THEN LET estimated == RDiv(gig_budget_max, RInt(40))
         IN  IF RLe(user_min, estimated) /\ RLe(estimated, user_max) THEN RInt(1)
             ELSE IF RLt(estimated, user_min)
             THEN RMax(RInt(0), RSub(RInt(1), RDiv(RSub(user_min, estimated), user_min)))
             ELSE Rat(8, 10)
    ELSE Rat(5, 10)

(* a or b *)
Or(a, b) == IF ~Falsy(a) THEN a ELSE b

(* Mutant: the max_budget filter never excludes a gig. *)
over_max_budget_never(gig, max_budget) == FALSE

over_max_budget(gig, max_budget) ==
    /\ ~Falsy(max_budget)
    /\ ~Falsy(Or(gig.budget_max, gig.hourly_rate))
    /\ RLt(max_budget, Or(gig.budget_max, gig.hourly_rate))

under_min_budget(gig, min_budget) ==
    /\ ~Falsy(min_budget)
    /\ ~Falsy(Or(gig.budget_min, gig.hourly_rate))
    /\ RLt(Or(gig.budget_min, gig.hourly_rate), min_budget)

off_platform(gig, platforms) ==
    /\ platforms.kind = "list"
    /\ Len(platforms.items) > 0
    /\ gig.platform \notin {Lower(p) : p \in SeqRange(platforms.items)}

other_project_type(gig, project_type) ==
    /\ project_type \notin {"None", ""}
    /\ gig.project_type # Lower(project_type)

(* The for loop over db.gigs.values(): the gigs that pass every filter,    *)
(* each with its match score, in the order of the database.                *)
RECURSIVE filtered_gigs(_, _, _)
filtered_gigs(gigs, k, args) ==
    IF k > Len(gigs) THEN << >>
    ELSE LET gig == gigs[k]
             skill_match_score == calculate_match_score(args.skills, gig.skills_required)
         IN  IF \/ off_platform(gig, args.platforms)
                \/ other_project_type(gig, args.project_type)
                \/ over_max_budget(gig, args.max_budget)
                \/ under_min_budget(gig, args.min_budget)
                \/ ~RLt(RInt(0), skill_match_score)
             THEN filtered_gigs(gigs, k + 1, args)
             ELSE <<[gig |-> gig, match_score |-> skill_match_score]>>
                  \o filtered_gigs(gigs, k + 1, args)

(* filtered_gigs.sort(key=match_score, reverse=True): a stable sort. *)
insert_by_match(sorted, x) ==
    LET before == {k \in 1..Len(sorted) :
                      \A j \in 1..k : RLe(x.match_score, sorted[j].match_score)}
        n == Cardinality(before)
    IN  SubSeq(sorted, 1, n) \o <<x>> \o SubSeq(sorted, n + 1, Len(sorted))

RECURSIVE sort_by_match(_, _, _)
sort_by_match(items, k, sorted) ==
    IF k > Len(items) THEN sorted
    ELSE sort_by_match(items, k + 1, insert_by_match(sorted, items[k]))

search_gigs(gigs, args) ==
    LET sorted == sort_by_match(filtered_gigs(gigs, 1, args), 1, << >>)
        top == slice_to(sorted, 10)
        results == [k \in DOMAIN top |->
                       [id |-> top[k].gig.id,
                        platform |-> top[k].gig.platform,
                        skills_required |-> top[k].gig.skills_required,
                        match_score |-> RRound(RMul(top[k].match_score, RInt(100)), 10)]]
    IN  [total_found |-> Len(results), gigs |-> results, search_criteria |-> args]

----------------------------------------------------------------------------
(* SpecSearch: the search_gigs tool applied to one database and one set of *)
(* arguments.  The database is any sequence of up to MaxDbHead gigs        *)
(* followed by up to MaxDbFiller gigs that ask for Python; a gig's id is   *)
(* its position (db.gigs is keyed by id).                                  *)

MaxDbHead == 2
MaxDbFiller == 11

ServerGigs ==
    {[id |-> 0, platform |-> "upwork", project_type |-> "fixed_price",
      budget_min |-> RInt(800), budget_max |-> RInt(1500), hourly_rate |-> None,
      skills_required |-> <<"React", "sql", "Python">>],
     [id |-> 0, platform |-> "upwork", project_type |-> "hourly",
      budget_min |-> None, budget_max |-> None, hourly_rate |-> RInt(75),
      skills_required |-> <<"aws", "python">>],
     [id |-> 0, platform |-> "fiverr", project_type |-> "fixed_price",
      budget_min |-> RInt(200), budget_max |-> RInt(400), hourly_rate |-> RInt(25),
      skills_required |-> <<"Python">>],
     [id |-> 0, platform |-> "freelancer", project_type |-> "hourly",
      budget_min |-> RInt(300), budget_max |-> RInt(600), hourly_rate |-> RInt(30),
      skills_required |-> <<"go", "sql">>]}

ServerFillerGig ==
    [id |-> 0, platform |-> "upwork", project_type |-> "fixed_price",
     budget_min |-> RInt(1000), budget_max |-> RInt(1500), hourly_rate |-> None,
     skills_required |-> <<"python", "django">>]

SearchSkills == {<<"Python", "React">>, <<"go">>}
SearchMaxBudgets == {None, RInt(0), RInt(50), RInt(1500)}
SearchMinBudgets == {None, RInt(100), RInt(500)}
SearchProjectTypes == {"None", "fixed_price", "HOURLY"}
SearchPlatforms ==
    {[kind |-> "none"], [kind |-> "list", items |-> << >>],
     [kind |-> "list", items |-> <<"Upwork">>],
     [kind |-> "list", items |-> <<"fiverr", "freelancer">>]}

InitSearch ==
    /\ RecIdle
    /\ out = NoCall
    /\ \E head \in SeqsUpTo(ServerGigs, MaxDbHead), n \in 0..MaxDbFiller,
          skills \in SearchSkills, max_budget \in SearchMaxBudgets,
          min_budget \in SearchMinBudgets, project_type \in SearchProjectTypes,
          platforms \in SearchPlatforms :
          LET all == head \o [k \in 1..n |-> ServerFillerGig]
          IN  inp = [fn |-> "search_gigs",
                     db |-> [k \in DOMAIN all |-> [all[k] EXCEPT !.id = k]],
                     args |-> [skills |-> skills, max_budget |-> max_budget,
                               min_budget |-> min_budget, project_type |-> project_type,
                               platforms |-> platforms]]

CallSearchGigs ==
    /\ inp.fn = "search_gigs"
    /\ ~Called
    /\ out' = Ret(search_gigs(inp.db, inp.args))
    /\ UNCHANGED <<inp, recVars>>

NextSearch == CallSearchGigs

SpecSearch == InitSearch /\ [][NextSearch]_vars

(* The claim's side of C18.  A filter is supplied when its argument is     *)
(* given and is not 0 or empty; the budget/rate of a gig is its budget     *)
(* bound where it has one and its hourly rate otherwise.                   *)
OnRequestedPlatform(gig, platforms) ==
    (platforms.kind = "list" /\ platforms.items # << >>) =>
        \E k \in DOMAIN platforms.items : Lower(platforms.items[k]) = gig.platform

OfRequestedType(gig, project_type) ==
    project_type # "None" => gig.project_type = Lower(project_type)

UpperAmount(gig) == IF gig.budget_max # None THEN gig.budget_max ELSE gig.hourly_rate
LowerAmount(gig) == IF gig.budget_min # None THEN gig.budget_min ELSE gig.hourly_rate

WithinBudget(gig, args) ==
    /\ (args.max_budget \notin {None, RInt(0)} /\ UpperAmount(gig) # None) =>
           RLe(UpperAmount(gig), args.max_budget)
    /\ (args.min_budget \notin {None, RInt(0)} /\ LowerAmount(gig) # None) =>
           RLe(args.min_budget, LowerAmount(gig))

SharesSkill(gig, skills) ==
    \E j \in DOMAIN skills, k \in DOMAIN gig.skills_required :
        Lower(skills[j]) = Lower(gig.skills_required[k])

----------------------------------------------------------------------------
(* SpecHelpers: check_rate_compatibility and calculate_match_score of the  *)
(* server, each applied to one set of arguments.                           *)

UserRateValues == {RInt(0), RInt(25), RInt(50), RInt(100)}
HelperBudgetValues == {None, RInt(0), RInt(800), RInt(1500), RInt(6000)}
HelperRateValues == {None, RInt(0), RInt(10), RInt(50), RInt(75), RInt(200)}
HelperSkillLists == SeqsUpTo({"Python", "python", "React", "sql"}, 2)

InitHelpers ==
    /\ RecIdle
    /\ out = NoCall
    /\ \/ \E user_min \in UserRateValues, user_max \in UserRateValues,
             lo \in HelperBudgetValues, hi \in HelperBudgetValues, rate \in HelperRateValues :
             inp = [fn |-> "check_rate_compatibility",
                    user_min |-> user_min, user_max |-> user_max,
                    gig_budget_min |-> lo, gig_budget_max |-> hi, hourly_rate |-> rate]
       \/ \E user_skills \in HelperSkillLists, required_skills \in HelperSkillLists :
             inp = [fn |-> "calculate_match_score",
                    user_skills |-> user_skills, required_skills |-> required_skills]

CallCheckRateCompatibility ==
    /\ inp.fn = "check_rate_compatibility"
    /\ ~Called
    /\ out' = Ret(check_rate_compatibility(inp.user_min, inp.user_max, inp.gig_budget_min,
                                           inp.gig_budget_max, inp.hourly_rate))
    /\ UNCHANGED <<inp, recVars>>

CallCalculateMatchScore ==
    /\ inp.fn = "calculate_match_score"
    /\ ~Called
    /\ out' = Ret(calculate_match_score(inp.user_skills, inp.required_skills))
    /\ UNCHANGED <<inp, recVars>>

NextHelpers == CallCheckRateCompatibility \/ CallCalculateMatchScore

SpecHelpers == InitHelpers /\ [][NextHelpers]_vars

(* C19: check_rate_compatibility returns a value in [0,1] for all          *)
(* non-negative rate bounds, budgets and hourly rates, and                 *)
(* calculate_match_score returns a value in [0,1] for all skill lists.     *)
C19_HelpersInUnitRange ==
    (inp.fn \in {"check_rate_compatibility", "calculate_match_score"} /\ Called) =>
        /\ out.ok
        /\ RLe(RInt(0), out.val)
        /\ RLe(out.val, RInt(1))

(* A gig paying 10 per hour was rated 0.2 for a user asking at least 50. *)
C19_Witness ==
    /\ inp.fn = "check_rate_compatibility" /\ Called
    /\ inp.user_min = RInt(50)
    /\ inp.hourly_rate = RInt(10)
    /\ out.ok
    /\ out.val = Rat(1, 5)

----------------------------------------------------------------------------
(* SpecRetry: one FreelancerAPIClient.search_gigs call, made through the   *)
(* tenacity wrapper                                                        *)
(*   @retry(stop=stop_after_attempt(3), wait=wait_exponential(...),        *)
(*          retry=retry_if_exception_type(RateLimitError))                 *)
(* The wrapper calls the function body and looks at how the body ended:    *)
(* it calls it again only when the body ended with a RateLimitError.       *)

(* BaseAPIClient._get_cache_key: the criteria fields that make the key. *)
get_cache_key(criteria) ==
    <<"FreelancerAPIClient", criteria.skills, criteria.min_budget,
      criteria.max_budget, criteria.project_type>>

cache_has(cache, key) == \E e \in cache : e.key = key
cache_get(cache, key) == (CHOOSE e \in cache : e.key = key).gigs
cache_set(cache, key, gigs) ==
    {e \in cache : e.key # key} \cup {[key |-> key, gigs |-> gigs]}

(* The exception the body raises inside its try block for a response       *)
(* status other than 200.                                                  *)
status_error(status) ==
    CASE status = 401 -> "AuthenticationError"
      [] status = 429 -> "RateLimitError"
      [] OTHER -> "APIError"

ResponseStatuses == {200, 401, 429, 500}

RetryCriteria ==
    [skills |-> <<"Python", "django">>, min_budget |-> None, max_budget |-> None,
     project_type |-> "None", min_match_score |-> RInt(0)]

InitRetry ==
    /\ user_profile = << >>
    /\ available_gigs = << >>
    /\ top_n = 0
    /\ pc = "idle"
    /\ idx = 0
    /\ recommendations = << >>
    /\ result = << >>
    /\ first_result = << >>
    /\ calls = 0
    /\ engine = << >>
    /\ tasks = << >>
    /\ agent = << >>
    /\ clock = << >>
    /\ monitor = << >>
    /\ db = << >>
    /\ seen = << >>
    /\ inp = [fn |-> "api_search_gigs"]
    /\ out = NoCall
    /\ \E token \in {"", "token"}, cached \in {{}, {[key |-> get_cache_key(RetryCriteria),
                                                      gigs |-> << >>]}},
          last \in 0..1 :
          api_client = [oauth_token |-> token, cache |-> cached,
                        rate_limit_delay |-> 1, last_request_time |-> last]
    /\ search = [pc |-> "call", attempts |-> 0, criteria |-> RetryCriteria, now |-> 1,
                 status |-> 0, exc |-> "", outcome |-> NoCall]

(* The wrapper calls the function body: one more attempt. *)
AttemptCall ==
    /\ search.pc = "call"
    /\ search' = [search EXCEPT !.pc = "body", !.attempts = @ + 1]
    /\ UNCHANGED <<api_client, inp, out, user_profile, available_gigs, top_n, agent, clock, monitor, db, seen, pc, idx,
                   recommendations, result, first_result, calls, engine, tasks>>

(* The body up to the request: no token, a cache hit, or _rate_limit()     *)
(* and the request sent.                                                   *)
BodyEnter ==
    /\ search.pc = "body"
    /\ \/ /\ api_client.oauth_token = ""
          /\ search' = [search EXCEPT !.pc = "resume", !.outcome = Ret(<< >>)]
          /\ UNCHANGED api_client
       \/ /\ api_client.oauth_token # ""
          /\ cache_has(api_client.cache, get_cache_key(search.criteria))
          /\ search' = [search EXCEPT
                           !.pc = "resume",
                           !.outcome = Ret(cache_get(api_client.cache,
                                                     get_cache_key(search.criteria)))]
          /\ UNCHANGED api_client
       \/ /\ api_client.oauth_token # ""
          /\ ~cache_has(api_client.cache, get_cache_key(search.criteria))
          /\ LET sent == IF search.now - api_client.last_request_time < api_client.rate_limit_delay
                         THEN api_client.last_request_time + api_client.rate_limit_delay
                         ELSE search.now
             IN  /\ api_client' = [api_client EXCEPT !.last_request_time = sent]
                 /\ search' = [search EXCEPT !.pc = "request", !.now = sent]
    /\ UNCHANGED <<inp, out, user_profile, available_gigs, top_n, agent, clock, monitor, db, seen, pc, idx,
                   recommendations, result, first_result, calls, engine, tasks>>

(* The platform answers with status 200: the projects are parsed, cached   *)
(* and returned.                                                           *)
RespondOk ==
    /\ search.pc = "request"
    /\ \E projects \in SeqsUpTo(RawProjects, MaxProjects) :
          LET gigs == parse_api_response(projects, search.criteria)
          IN  /\ api_client' = [api_client EXCEPT
                                   !.cache = cache_set(@, get_cache_key(search.criteria), gigs)]
              /\ search' = [search EXCEPT !.pc = "resume", !.status = 200,
                                          !.outcome = Ret(gigs)]
    /\ UNCHANGED <<inp, out, user_profile, available_gigs, top_n, agent, clock, monitor, db, seen, pc, idx,
                   recommendations, result, first_result, calls, engine, tasks>>

(* The platform answers with another status: the body raises inside its    *)
(* try block.                                                              *)
RespondError ==
    /\ search.pc = "request"
    /\ \E status \in ResponseStatuses \ {200} :
          search' = [search EXCEPT !.pc = "except", !.status = status,
                                   !.exc = status_error(status)]
    /\ UNCHANGED <<api_client, inp, out, user_profile, available_gigs, top_n, agent, clock, monitor, db, seen, pc, idx,
                   recommendations, result, first_result, calls, engine, tasks>>

(* The request fails with aiohttp.ClientError. *)
NetworkError ==
    /\ search.pc = "request"
    /\ search' = [search EXCEPT !.pc = "except", !.exc = "ClientError"]
    /\ UNCHANGED <<api_client, inp, out, user_profile, available_gigs, top_n, agent, clock, monitor, db, seen, pc, idx,
                   recommendations, result, first_result, calls, engine, tasks>>

(* except aiohttp.ClientError / except Exception: every exception raised   *)
(* in the try block, RateLimitError included, is printed and the body      *)
(* returns [].                                                             *)
Except ==
    /\ search.pc = "except"
    /\ search' = [search EXCEPT !.pc = "resume", !.outcome = Ret(<< >>)]
    /\ UNCHANGED <<api_client, inp, out, user_profile, available_gigs, top_n, agent, clock, monitor, db, seen, pc, idx,
                   recommendations, result, first_result, calls, engine, tasks>>

(* The wrapper takes the body's outcome: after a RateLimitError and fewer  *)
(* than 3 attempts it waits and calls again, otherwise the call ends.      *)
WrapperResume ==
    /\ search.pc = "resume"
    /\ search' = [search EXCEPT
                     !.pc = IF /\ ~search.outcome.ok
                               /\ search.outcome.exc = "RateLimitError"
                               /\ search.attempts < 3
                            THEN "call" ELSE "done"]
    /\ out' = search.outcome
    /\ UNCHANGED <<api_client, inp, user_profile, available_gigs, top_n, agent, clock, monitor, db, seen, pc, idx,
                   recommendations, result, first_result, calls, engine, tasks>>

NextRetry ==
    \/ AttemptCall
    \/ BodyEnter
    \/ RespondOk
    \/ RespondError
    \/ NetworkError
    \/ Except
    \/ WrapperResume

SpecRetry == InitRetry /\ [][NextRetry]_vars

(* C20: a search_gigs call that has ended, and whose last answer from the  *)
(* platform was HTTP 429, has made 3 attempts.                             *)
C20_ThreeAttemptsOn429 ==
    (inp.fn = "api_search_gigs" /\ search.pc = "done" /\ search.status = 429) =>
        search.attempts = 3

(* What the code does: the body is called once, whatever the answer, and   *)
(* after a 429 the call returns an empty list.                             *)
C20_SingleAttempt ==
    inp.fn = "api_search_gigs" =>
        /\ search.attempts <= 1
        /\ (search.pc = "done" /\ search.status = 429) =>
               (search.outcome.ok /\ search.outcome.val = << >>)

----------------------------------------------------------------------------
(* AutoBiddingAgent (src/automation.py)                                    *)

RECURSIVE recommend_gigs_from(_, _, _, _)
(* The for loop of recommend_gigs over dict records: a gig whose scoring   *)
(* raises is skipped.                                                      *)
recommend_gigs_from(self, gigs, k, recs) ==
    IF k > Len(gigs) THEN recs
    ELSE LET scored == score_gig(self, gigs[k])
         IN  recommend_gigs_from(self, gigs, k + 1,
                 IF scored.ok THEN Append(recs, scored.val) ELSE recs)

(* AIGigRecommender(user_profile).recommend_gigs(gigs, top_n) *)
recommend_gigs(profile, gigs, n) ==
    slice_to(sort_by_score(recommend_gigs_from(UserFeatures(profile), gigs, 1, << >>),
                           1, << >>), n)

(* One turn of the loop of _filter_eligible_gigs: TRUE when the gig is     *)
(* appended.  A list option that is None or empty is falsy and filters     *)
(* nothing; both are modelled by the empty sequence.                       *)
eligible(config, gig) ==
    /\ ~(/\ ~Falsy(gig.budget_max)
         /\ \/ RLt(gig.budget_max, config.min_budget)
            \/ RLt(config.max_budget, gig.budget_max))
    /\ ~(/\ config.preferred_platforms # << >>
         /\ gig.platform \notin SeqRange(config.preferred_platforms))
    /\ config.required_skills # << >> =>
          \E req \in SeqRange(config.required_skills) :
              Lower(req) \in {Lower(s) : s \in SeqRange(SkillItems(gig.skills_required))}

filter_eligible_gigs(config, gigs) == SelectSeq(gigs, LAMBDA gig : eligible(config, gig))

(* Mutant: the bids already placed today are not subtracted. *)
bid_allowance_per_call(config, bids_today) ==
    IF 5 < config.max_bids_per_day THEN 5 ELSE config.max_bids_per_day

(* min(5, self.config.max_bids_per_day - self.bids_today) *)
bid_allowance(config, bids_today) ==
    IF 5 < config.max_bids_per_day - bids_today THEN 5
    ELSE config.max_bids_per_day - bids_today

(* _generate_proposal: the text of the language model when it is           *)
(* available; otherwise the fallback returns _generate_simple_proposal(gig) *)
(* without awaiting it, a coroutine object.                                *)
generate_proposal(llm) == IF llm THEN "text" ELSE "coroutine"

(* _submit_bid prints len(bid['proposal']) and returns True: a coroutine   *)
(* object has no len().                                                    *)
submit_bid(bid) == IF bid.proposal = "coroutine" THEN Raise("TypeError") ELSE Ret(TRUE)

(* next((g for g in eligible_gigs if g['id'] == rec.gig_id), None) *)
find_gig(eligible_gigs, gig_id) ==
    LET hits == {k \in 1..Len(eligible_gigs) : eligible_gigs[k].id = gig_id}
    IN  IF hits = {} THEN None
        ELSE eligible_gigs[CHOOSE k \in hits : \A j \in hits : k <= j]

RECURSIVE bid_on_recommendations(_, _, _, _, _, _)
(* The loop over the top recommendations: st holds bids_placed, bids_today *)
(* and the exception that ended the loop, if any.                          *)
bid_on_recommendations(config, eligible_gigs, recs, k, llm, st) ==
    IF k > Len(recs) \/ st.exc # "" THEN st
    ELSE
    LET rec == recs[k]
        gig == find_gig(eligible_gigs, rec.gig_id)
    IN  IF gig = None \/ RLt(rec.recommendation_score, config.min_match_score)
        THEN bid_on_recommendations(config, eligible_gigs, recs, k + 1, llm, st)
        ELSE
        LET bid == [gig_id |-> gig.id,
                    platform |-> gig.platform,
                    bid_amount |-> rec.optimal_bid_amount,
                    proposal |-> generate_proposal(llm),
                    status |-> IF config.auto_apply THEN "submitted" ELSE "draft"]
            success == submit_bid(bid)
        IN  bid_on_recommendations(config, eligible_gigs, recs, k + 1, llm,
                IF ~config.auto_apply
                THEN [st EXCEPT !.bids_placed = Append(@, bid)]
                ELSE IF ~success.ok
                THEN [st EXCEPT !.exc = success.exc, !.submit_calls = @ + 1]
                ELSE [st EXCEPT !.bids_placed = Append(@, bid),
                                !.bids_today = @ + 1,
                                !.submit_calls = @ + 1])

(* Mutant: the bids of the branch without a recommender marked submitted. *)
draft_bids_submitted(eligible_gigs) ==
    [k \in 1..Len(eligible_gigs) |->
        [gig_id |-> eligible_gigs[k].id,
         platform |-> eligible_gigs[k].platform,
         bid_amount |-> IF eligible_gigs[k].budget_min = None THEN RInt(1000)
                        ELSE eligible_gigs[k].budget_min,
         proposal |-> "text",
         status |-> "submitted"]]

(* The loop of the branch without a recommender: drafts only. *)
draft_bids(eligible_gigs) ==
    [k \in 1..Len(eligible_gigs) |->
        [gig_id |-> eligible_gigs[k].id,
         platform |-> eligible_gigs[k].platform,
         bid_amount |-> IF eligible_gigs[k].budget_min = None THEN RInt(1000)
                        ELSE eligible_gigs[k].budget_min,
         proposal |-> "text",
         status |-> "draft"]]

(* scan_and_bid after the daily reset: the agent's counter is bids_today.  *)
(* The result holds what is returned or raised, the counter afterwards     *)
(* and the number of _submit_bid calls.                                    *)
scan_and_bid(self, bids_today, gigs, recommender, llm) ==
    LET config == self.config
        start == [bids_placed |-> << >>, bids_today |-> bids_today,
                  submit_calls |-> 0, exc |-> ""]
    IN  IF ~config.enabled THEN start
        ELSE IF bids_today >= config.max_bids_per_day THEN start
        ELSE
        LET eligible_gigs == filter_eligible_gigs(config, gigs)
            allowance == bid_allowance(config, bids_today)
        IN  IF recommender
            THEN bid_on_recommendations(config, eligible_gigs,
                     slice_to(sort_by_score(
                                  recommend_gigs(self.user_profile, eligible_gigs, 10),
                                  1, << >>),
                              allowance),
                     1, llm, start)
            ELSE [start EXCEPT
                     !.bids_placed = draft_bids(slice_to(eligible_gigs, allowance))]

----------------------------------------------------------------------------
(* SpecAgent: one AutoBiddingAgent, its scan_and_bid called again and      *)
(* again while the calendar date advances.  scan_and_bid never suspends    *)
(* (none of the coroutines it awaits waits for anything), so each call is  *)
(* one step.                                                               *)

MaxBidsPerDay == 6
MaxAgentFiller == 6
MaxDay == 1

(* A gig dict as the agent reads it: the scored fields and the platform. *)
AgentGig(kind, platform, id) == MakeGig(kind, id) @@ [platform |-> platform]

(* A batch: at most one arbitrary gig followed by at most one well-matching *)
(* one, or a run of well-matching ones longer than the 5 bids of a call.   *)
AgentHeads ==
    {<< >>, <<AgentGig("good", "fiverr", 1)>>, <<AgentGig("plain", "upwork", 1)>>,
     <<AgentGig("missing_skills", "upwork", 1)>>}

AgentFiller(n) == [k \in 1..n |-> AgentGig("good", "upwork", 10 + k)]

AgentBatches ==
    {head \o AgentFiller(n) : head \in AgentHeads, n \in {0, 1}}
    \cup {AgentFiller(MaxAgentFiller)}

(* How a call is made: without a recommender, or with one while the        *)
(* language model is available or not.                                     *)
AgentModes ==
    {[recommender |-> FALSE, llm |-> FALSE],
     [recommender |-> TRUE, llm |-> TRUE],
     [recommender |-> TRUE, llm |-> FALSE]}

(* The list options of the configuration: none, a platform, a skill. *)
AgentListOptions ==
    {[preferred_platforms |-> << >>, required_skills |-> << >>],
     [preferred_platforms |-> <<"upwork">>, required_skills |-> << >>],
     [preferred_platforms |-> << >>, required_skills |-> <<"Python">>]}

AgentConfigs ==
    {[enabled |-> e,
      min_match_score |-> Rat(7, 10),
      max_bids_per_day |-> m,
      min_budget |-> RInt(500),
      max_budget |-> RInt(10000),
      preferred_platforms |-> l.preferred_platforms,
      auto_apply |-> a,
      required_skills |-> l.required_skills] :
        e \in BOOLEAN, a \in BOOLEAN, m \in {0, 2, MaxBidsPerDay}, l \in AgentListOptions}

(* AutoBiddingAgent.__init__ on day 0. *)
InitAgent ==
    /\ user_profile = << >>
    /\ available_gigs = << >>
    /\ top_n = 0
    /\ pc = "idle"
    /\ idx = 0
    /\ recommendations = << >>
    /\ result = << >>
    /\ first_result = << >>
    /\ calls = 0
    /\ engine = << >>
    /\ tasks = << >>
    /\ api_client = << >>
    /\ search = << >>
    /\ monitor = << >>
    /\ db = << >>
    /\ inp = [fn |-> "scan_and_bid"]
    /\ out = NoCall
    /\ clock = [date |-> 0]
    /\ \E config \in AgentConfigs :
          agent = [user_profile |-> CHOOSE p \in Profiles : p.hourly_rate_max = RInt(100),
                   config |-> config,
                   bids_today |-> 0,
                   last_reset |-> 0]
    /\ seen = [date |-> 0, submitted |-> 0, reached |-> FALSE, new_day |-> FALSE,
               before |-> 0, submit_calls |-> 0]

(* The number of bids of a returned list whose status is 'submitted'. *)
SubmittedIn(bids) == Cardinality({k \in 1..Len(bids) : bids[k].status = "submitted"})

(* One scan_and_bid call: the daily reset, then the body.  The observer    *)
(* notes the date of the call, whether the counter was reset, the counter  *)
(* at entry, whether the limit had been reached, the _submit_bid calls and *)
(* the submitted bids returned so far on that date.                        *)
CallScanAndBid ==
    \E gigs \in AgentBatches, mode \in AgentModes :
        LET new_day == clock.date > agent.last_reset
            bids_today == IF new_day THEN 0 ELSE agent.bids_today
        IN  \E r \in {scan_and_bid(agent, bids_today, gigs, mode.recommender, mode.llm)} :
            /\ agent' = [agent EXCEPT
                            !.bids_today = r.bids_today,
                            !.last_reset = IF new_day THEN clock.date ELSE @]
            /\ out' = IF r.exc = "" THEN Ret(r.bids_placed) ELSE Raise(r.exc)
            /\ seen' = [date |-> clock.date,
                        submitted |-> (IF clock.date = seen.date THEN seen.submitted ELSE 0)
                                      + (IF r.exc = "" THEN SubmittedIn(r.bids_placed) ELSE 0),
                        reached |-> /\ clock.date = seen.date
                                    /\ agent.bids_today >= agent.config.max_bids_per_day,
                        new_day |-> clock.date # seen.date,
                        before |-> agent.bids_today,
                        submit_calls |-> r.submit_calls]
            /\ UNCHANGED <<inp, clock, user_profile, available_gigs, top_n, pc, idx,
                           recommendations, result, first_result, calls, engine, tasks,
                           api_client, search, monitor, db>>

(* Midnight passes. *)
Midnight ==
    /\ clock.date < MaxDay
    /\ clock' = [clock EXCEPT !.date = @ + 1]
    /\ UNCHANGED <<inp, out, agent, seen, user_profile, available_gigs, top_n, pc, idx,
                   recommendations, result, first_result, calls, engine, tasks,
                   api_client, search, monitor, db>>

NextAgent == CallScanAndBid \/ Midnight

SpecAgent == InitAgent /\ [][NextAgent]_vars

(* C21: over any sequence of scan_and_bid calls, bids_today never exceeds  *)
(* max_bids_per_day, and neither does the number of 'submitted' bids       *)
(* returned on one date; a call made after the limit was reached on the    *)
(* same date returns an empty list; the first call on a later date starts  *)
(* from a counter of 0.                                                    *)
C21_DailyBidLimit ==
    /\ agent.bids_today <= agent.config.max_bids_per_day
    /\ seen.submitted <= agent.config.max_bids_per_day
    /\ (Called /\ seen.reached) => out = Ret(<< >>)
    /\ (Called /\ seen.new_day /\ out.ok) => agent.bids_today = SubmittedIn(out.val)

(* The limit of 6 was reached by two calls on one date (5 bids, then 1),   *)
(* and the next call on that date returned nothing.                        *)
C21_Witness ==
    /\ Called /\ seen.reached
    /\ agent.config.max_bids_per_day = MaxBidsPerDay
    /\ seen.submitted = MaxBidsPerDay
    /\ agent.bids_today = MaxBidsPerDay
    /\ out = Ret(<< >>)

(* A call on a later date, after the limit was reached the day before,     *)
(* submitted bids again.                                                   *)
C21_WitnessReset ==
    /\ Called /\ seen.new_day /\ out.ok
    /\ seen.before = agent.config.max_bids_per_day
    /\ SubmittedIn(out.val) > 0

(* C26: with enabled = False scan_and_bid returns an empty list; with      *)
(* auto_apply = False every returned bid is a 'draft', _submit_bid is not  *)
(* called and bids_today is what it was; a returned bid is 'submitted'     *)
(* only with auto_apply = True and after its _submit_bid call returned.    *)
C26_DraftUnlessAutoApply ==
    Called =>
        /\ ~agent.config.enabled => out = Ret(<< >>)
        /\ ~agent.config.auto_apply =>
              /\ out.ok
              /\ \A k \in 1..Len(out.val) : out.val[k].status = "draft"
              /\ seen.submit_calls = 0
              /\ agent.bids_today = seen.before
        /\ (out.ok /\ SubmittedIn(out.val) > 0) =>
              /\ agent.config.auto_apply
              /\ SubmittedIn(out.val) = seen.submit_calls

(* An enabled agent without auto_apply returned the drafts chosen by the    *)
(* recommender, their proposals never awaited, without a _submit_bid call. *)
C26_Witness ==
    /\ Called /\ out.ok /\ agent.config.enabled /\ ~agent.config.auto_apply
    /\ Len(out.val) > 1
    /\ out.val[1].proposal = "coroutine"
    /\ out.val[1].status = "draft"
    /\ seen.submit_calls = 0

----------------------------------------------------------------------------
(* SpecLimit: concurrent search_gigs coroutines of one authenticated       *)
(* client on one event loop.  A coroutine runs without interruption from   *)
(* one await to the next; the clock counts half seconds.                   *)

RateLimitDelay == 2
MaxCoroutines == 3
MaxTime == 5

Coroutines == 1..MaxCoroutines

InitLimit ==
    /\ user_profile = << >>
    /\ available_gigs = << >>
    /\ top_n = 0
    /\ pc = "idle"
    /\ idx = 0
    /\ recommendations = << >>
    /\ result = << >>
    /\ first_result = << >>
    /\ calls = 0
    /\ engine = << >>
    /\ search = << >>
    /\ agent = << >>
    /\ monitor = << >>
    /\ db = << >>
    /\ inp = [fn |-> "concurrent_search_gigs"]
    /\ out = NoCall
    /\ clock = [time |-> RateLimitDelay]
    /\ api_client = [oauth_token |-> "token", cache |-> {},
                     rate_limit_delay |-> RateLimitDelay, last_request_time |-> 0]
    /\ tasks = [c \in Coroutines |->
                   [pc |-> "start", criteria |-> RetryCriteria, wake_at |-> 0,
                    outcome |-> NoCall]]
    /\ seen = [requests |-> 0, last_start |-> 0, closest |-> RateLimitDelay]

(* The observer notes a request that starts now: the number of requests,   *)
(* the time of the latest start and the smallest distance between two      *)
(* consecutive starts.                                                     *)
RequestStarts ==
    [requests |-> seen.requests + 1,
     last_start |-> clock.time,
     closest |-> IF seen.requests > 0 /\ clock.time - seen.last_start < seen.closest
                 THEN clock.time - seen.last_start ELSE seen.closest]

(* search_gigs up to its first await: the cache check, then _rate_limit,   *)
(* which either goes to sleep or stamps last_request_time, after which the *)
(* request is sent.                                                        *)
SearchEnter(c) ==
    /\ tasks[c].pc = "start"
    /\ LET cache_key == get_cache_key(tasks[c].criteria)
           current_time == clock.time
           time_since_last == current_time - api_client.last_request_time
       IN  IF cache_has(api_client.cache, cache_key)
           THEN /\ tasks' = [tasks EXCEPT ![c].pc = "done",
                                          ![c].outcome = Ret(cache_get(api_client.cache, cache_key))]
                /\ UNCHANGED <<api_client, seen>>
           ELSE IF time_since_last < api_client.rate_limit_delay
           THEN /\ tasks' = [tasks EXCEPT
                                ![c].pc = "sleep",
                                ![c].wake_at = current_time
                                               + (api_client.rate_limit_delay - time_since_last)]
                /\ UNCHANGED <<api_client, seen>>
           ELSE /\ tasks' = [tasks EXCEPT ![c].pc = "request"]
                /\ api_client' = [api_client EXCEPT !.last_request_time = clock.time]
                /\ seen' = RequestStarts
    /\ UNCHANGED <<inp, out, clock, user_profile, available_gigs, top_n, pc, idx,
                   recommendations, result, first_result, calls, engine, search,
                   agent, monitor, db>>

(* asyncio.sleep is over: _rate_limit stamps last_request_time and the     *)
(* request is sent.                                                        *)
SleepOver(c) ==
    /\ tasks[c].pc = "sleep"
    /\ clock.time >= tasks[c].wake_at
    /\ tasks' = [tasks EXCEPT ![c].pc = "request"]
    /\ api_client' = [api_client EXCEPT !.last_request_time = clock.time]
    /\ seen' = RequestStarts
    /\ UNCHANGED <<inp, out, clock, user_profile, available_gigs, top_n, pc, idx,
                   recommendations, result, first_result, calls, engine, search,
                   agent, monitor, db>>

(* The response arrives: 200 is parsed and cached, any other status and a  *)
(* network error end in an except clause that returns [].                  *)
Response(c) ==
    /\ tasks[c].pc = "request"
    /\ \/ /\ tasks' = [tasks EXCEPT ![c].pc = "done", ![c].outcome = Ret(<<"gig">>)]
          /\ api_client' = [api_client EXCEPT
                               !.cache = cache_set(@, get_cache_key(tasks[c].criteria),
                                                   <<"gig">>)]
       \/ /\ tasks' = [tasks EXCEPT ![c].pc = "done", ![c].outcome = Ret(<< >>)]
          /\ UNCHANGED api_client
    /\ UNCHANGED <<inp, out, clock, seen, user_profile, available_gigs, top_n, pc, idx,
                   recommendations, result, first_result, calls, engine, search,
                   agent, monitor, db>>

(* Half a second passes. *)
Tick ==
    /\ clock.time < MaxTime
    /\ clock' = [clock EXCEPT !.time = @ + 1]
    /\ UNCHANGED <<inp, out, api_client, tasks, seen, user_profile, available_gigs, top_n,
                   pc, idx, recommendations, result, first_result, calls, engine, search,
                   agent, monitor, db>>

NextLimit ==
    \/ \E c \in Coroutines : SearchEnter(c) \/ SleepOver(c) \/ Response(c)
    \/ Tick

SpecLimit == InitLimit /\ [][NextLimit]_vars

(* C22: no two requests of one client start less than rate_limit_delay     *)
(* apart, whatever the interleaving of its search_gigs coroutines.         *)
C22_RequestsSpacedByDelay ==
    seen.closest >= api_client.rate_limit_delay

----------------------------------------------------------------------------
(* PerformanceMonitor (src/utils/monitoring.py)                            *)

(* deque(maxlen=max_history).append: the oldest entry is dropped when the  *)
(* deque is full.                                                          *)
deque_append(history, max_history, x) ==
    LET all == Append(history, x)
    IN  IF Len(all) > max_history THEN SubSeq(all, Len(all) - max_history + 1, Len(all))
        ELSE all

(* Mutant: a list that keeps every entry. *)
end_request_unbounded(self, metrics) ==
    [self EXCEPT
        !.request_history = Append(@, metrics),
        !.tool_stats[metrics.tool_name] = Append(@, metrics.duration_ms),
        !.success_count[metrics.tool_name] = IF metrics.success THEN @ + 1 ELSE @,
        !.error_count[metrics.tool_name] = IF metrics.success THEN @ ELSE @ + 1]

(* The body of end_request under the lock.  A defaultdict is a function    *)
(* with the default value where nothing was stored.                        *)
end_request(self, metrics) ==
    [self EXCEPT
        !.request_history = deque_append(@, self.max_history, metrics),
        !.tool_stats[metrics.tool_name] = Append(@, metrics.duration_ms),
        !.success_count[metrics.tool_name] = IF metrics.success THEN @ + 1 ELSE @,
        !.error_count[metrics.tool_name] = IF metrics.success THEN @ ELSE @ + 1]

(* The body of get_tool_stats under the lock: the counts of the returned   *)
(* dictionary (the duration statistics are left out).                      *)
get_tool_stats(self, tool_name) ==
    LET durations == self.tool_stats[tool_name]
    IN  IF durations = << >>
        THEN [tool_name |-> tool_name, call_count |-> 0,
              success_count |-> 0, error_count |-> 0]
        ELSE [tool_name |-> tool_name, call_count |-> Len(durations),
              success_count |-> self.success_count[tool_name],
              error_count |-> self.error_count[tool_name]]

RECURSIVE sum_values(_, _)
(* sum(d.values()) *)
sum_values(d, keys) ==
    IF keys = {} THEN 0
    ELSE LET k == CHOOSE k \in keys : TRUE
         IN  d[k] + sum_values(d, keys \ {k})

(* set(self.tool_stats.keys()): the tools a duration was stored for. *)
all_tools(self) == {tool \in DOMAIN self.tool_stats : self.tool_stats[tool] # << >>}

(* The entries of the dictionary of get_all_stats that are evaluated       *)
(* before the comprehension over the tools.                                *)
get_all_stats_totals(self) ==
    [total_requests |-> Len(self.request_history),
     total_success |-> sum_values(self.success_count, DOMAIN self.success_count),
     total_errors |-> sum_values(self.error_count, DOMAIN self.error_count)]

----------------------------------------------------------------------------
(* SpecMonitor: threads calling end_request, get_tool_stats and            *)
(* get_all_stats of one monitor.  monitor.lock is 0 when the lock is free  *)
(* and the holding thread otherwise; threading.Lock is not reentrant.      *)

MaxHistory == 2
MaxRequests == 3
MaxThreads == 2

Threads == 1..MaxThreads
ToolNames == {"search_gigs", "optimize_profile"}

IdleThread ==
    [pc |-> "idle", caller |-> "", tool_name |-> "", metrics |-> << >>,
     totals |-> << >>, pending |-> {}, tools |-> {}, result |-> [kind |-> "none yet"]]

(* PerformanceMonitor(max_history=MaxHistory) *)
InitMonitor ==
    /\ user_profile = << >>
    /\ available_gigs = << >>
    /\ top_n = 0
    /\ pc = "idle"
    /\ idx = 0
    /\ recommendations = << >>
    /\ result = << >>
    /\ first_result = << >>
    /\ calls = 0
    /\ engine = << >>
    /\ search = << >>
    /\ agent = << >>
    /\ api_client = << >>
    /\ clock = << >>
    /\ db = << >>
    /\ inp = [fn |-> "monitor"]
    /\ out = NoCall
    /\ monitor = [max_history |-> MaxHistory,
                  request_history |-> << >>,
                  tool_stats |-> [tool \in ToolNames |-> << >>],
                  error_count |-> [tool \in ToolNames |-> 0],
                  success_count |-> [tool \in ToolNames |-> 0],
                  lock |-> 0]
    /\ tasks = [t \in Threads |-> IdleThread]
    /\ seen = [requests |-> 0]

(* A thread enters end_request: the metrics are completed before the lock  *)
(* is asked for.                                                           *)
CallEndRequest(t) ==
    /\ tasks[t].pc = "idle"
    /\ seen.requests < MaxRequests
    /\ \E tool \in ToolNames, success \in BOOLEAN :
          tasks' = [tasks EXCEPT
                       ![t] = [IdleThread EXCEPT
                                  !.pc = "end_request",
                                  !.metrics = [tool_name |-> tool, duration_ms |-> 1,
                                               success |-> success]]]
    /\ seen' = [seen EXCEPT !.requests = @ + 1]
    /\ UNCHANGED <<monitor, inp, out, user_profile, available_gigs, top_n, pc, idx,
                   recommendations, result, first_result, calls, engine, search,
                   agent, api_client, clock, db>>

(* 'with self.lock' of end_request: taken when free, released at the end. *)
EndRequest(t) ==
    /\ tasks[t].pc = "end_request"
    /\ monitor.lock = 0
    /\ monitor' = end_request(monitor, tasks[t].metrics)
    /\ tasks' = [tasks EXCEPT ![t] = [IdleThread EXCEPT !.result = [kind |-> "None"]]]
    /\ UNCHANGED <<seen, inp, out, user_profile, available_gigs, top_n, pc, idx,
                   recommendations, result, first_result, calls, engine, search,
                   agent, api_client, clock, db>>

(* A thread calls get_tool_stats. *)
CallGetToolStats(t) ==
    /\ tasks[t].pc = "idle"
    /\ \E tool \in ToolNames :
          tasks' = [tasks EXCEPT
                       ![t] = [IdleThread EXCEPT !.pc = "get_tool_stats",
                                                 !.caller = "thread",
                                                 !.tool_name = tool]]
    /\ UNCHANGED <<monitor, seen, inp, out, user_profile, available_gigs, top_n, pc, idx,
                   recommendations, result, first_result, calls, engine, search,
                   agent, api_client, clock, db>>

(* 'with self.lock' of get_tool_stats: taken when free, whoever called.    *)
(* Called by a thread, the statistics are returned; called from the        *)
(* comprehension of get_all_stats, they are stored and the comprehension   *)
(* goes on, the lock having been released by the inner 'with'.             *)
GetToolStats(t) ==
    /\ tasks[t].pc = "get_tool_stats"
    /\ monitor.lock = 0
    /\ LET stats == get_tool_stats(monitor, tasks[t].tool_name)
       IN  IF tasks[t].caller = "thread"
           THEN tasks' = [tasks EXCEPT ![t] = [IdleThread EXCEPT
                                             !.result = [kind |-> "tool_stats", stats |-> stats]]]
           ELSE LET tools == tasks[t].tools \cup {stats}
                    pending == tasks[t].pending \ {tasks[t].tool_name}
                IN  IF pending = {}
                    THEN tasks' = [tasks EXCEPT
                                      ![t] = [IdleThread EXCEPT
                                                 !.result = [kind |-> "all_stats",
                                                             totals |-> tasks[t].totals,
                                                             tools |-> tools]]]
                    ELSE tasks' = [tasks EXCEPT
                                      ![t].tools = tools,
                                      ![t].pending = pending,
                                      ![t].tool_name = CHOOSE tool \in pending : TRUE]
    /\ UNCHANGED <<monitor, seen, inp, out, user_profile, available_gigs, top_n, pc, idx,
                   recommendations, result, first_result, calls, engine, search,
                   agent, api_client, clock, db>>

(* A thread calls get_all_stats. *)
CallGetAllStats(t) ==
    /\ tasks[t].pc = "idle"
    /\ tasks' = [tasks EXCEPT ![t] = [IdleThread EXCEPT !.pc = "get_all_stats"]]
    /\ UNCHANGED <<monitor, seen, inp, out, user_profile, available_gigs, top_n, pc, idx,
                   recommendations, result, first_result, calls, engine, search,
                   agent, api_client, clock, db>>

(* 'with self.lock' of get_all_stats: taken when free.  The totals are     *)
(* evaluated; with no tool recorded the dictionary is returned and the     *)
(* lock released, otherwise get_tool_stats is called for a first tool      *)
(* while the lock is held.                                                 *)
GetAllStats(t) ==
    /\ tasks[t].pc = "get_all_stats"
    /\ monitor.lock = 0
    /\ LET totals == get_all_stats_totals(monitor)
           pending == all_tools(monitor)
       IN  IF pending = {}
           THEN /\ tasks' = [tasks EXCEPT
                                ![t] = [IdleThread EXCEPT
                                           !.result = [kind |-> "all_stats",
                                                       totals |-> totals, tools |-> {}]]]
                /\ UNCHANGED monitor
           ELSE /\ \E tool \in pending :
                      tasks' = [tasks EXCEPT
                                   ![t] = [IdleThread EXCEPT
                                              !.pc = "get_tool_stats",
                                              !.caller = "get_all_stats",
                                              !.totals = totals,
                                              !.pending = pending,
                                              !.tool_name = tool]]
                /\ monitor' = [monitor EXCEPT !.lock = t]
    /\ UNCHANGED <<seen, inp, out, user_profile, available_gigs, top_n, pc, idx,
                   recommendations, result, first_result, calls, engine, search,
                   agent, api_client, clock, db>>

NextMonitor ==
    \E t \in Threads :
        \/ CallEndRequest(t)
        \/ EndRequest(t)
        \/ CallGetToolStats(t)
        \/ GetToolStats(t)
        \/ CallGetAllStats(t)
        \/ GetAllStats(t)

SpecMonitor == InitMonitor /\ [][NextMonitor]_vars

(* Every thread that can take a step keeps running, and a thread that     *)
(* finds the lock free again and again gets it.                            *)
SpecMonitorFair ==
    /\ SpecMonitor
    /\ \A t \in Threads :
          SF_vars(EndRequest(t) \/ GetToolStats(t) \/ GetAllStats(t))

(* C23: every call of get_all_stats returns, whatever was recorded and     *)
(* whatever the other threads call.                                        *)
C23_GetAllStatsReturns ==
    \A t \in Threads :
        (tasks[t].pc = "get_all_stats") ~> (tasks[t].pc = "idle")

(* What the code does: a get_all_stats that found a tool recorded waits    *)
(* for the lock it holds itself, and never has a result.                   *)
C23_HoldsLockForever ==
    \A t \in Threads :
        /\ monitor.lock = t =>
              /\ tasks[t].pc = "get_tool_stats"
              /\ tasks[t].caller = "get_all_stats"
        /\ tasks[t].result.kind = "all_stats" => tasks[t].result.tools = {}

----------------------------------------------------------------------------
(* DatabaseManager (src/database/db_manager.py)                            *)

(* The tuple bound to the INSERT: booleans as integers. *)
gig_to_row(gig) ==
    [id |-> gig.id, title |-> gig.title, is_active |-> IF gig.is_active THEN 1 ELSE 0]

(* _row_to_gig: integers back to booleans. *)
row_to_gig(row) ==
    [id |-> row.id, title |-> row.title, is_active |-> row.is_active # 0]

(* INSERT INTO gigs: id is the primary key, so a second row with the same  *)
(* id raises IntegrityError and leaves the table as it was.                *)
insert_row(rows, row) ==
    IF \E k \in 1..Len(rows) : rows[k].id = row.id
    THEN [ok |-> FALSE, rows |-> rows]
    ELSE [ok |-> TRUE, rows |-> Append(rows, row)]

(* self.memory_gigs[gig.id] = gig: a dict keeps the position of a key it   *)
(* already holds.                                                          *)
memory_set(memory_gigs, gig) ==
    IF \E k \in 1..Len(memory_gigs) : memory_gigs[k].id = gig.id
    THEN [k \in 1..Len(memory_gigs) |->
             IF memory_gigs[k].id = gig.id THEN gig ELSE memory_gigs[k]]
    ELSE Append(memory_gigs, gig)

(* add_gig: the manager afterwards; the call returns True on every path. *)
add_gig(self, gig) ==
    IF self.use_sqlite /\ self.conn
    THEN LET inserted == insert_row(self.rows, gig_to_row(gig))
         IN  IF inserted.ok THEN [self EXCEPT !.rows = inserted.rows]
             ELSE [self EXCEPT !.memory_gigs = memory_set(@, gig)]
    ELSE [self EXCEPT !.memory_gigs = memory_set(@, gig)]

(* The first element of a sequence that satisfies a test, as a sequence of *)
(* at most one element (empty for None).                                   *)
FirstWith(seq, Test(_)) ==
    LET hits == {k \in 1..Len(seq) : Test(seq[k])}
    IN  IF hits = {} THEN << >>
        ELSE <<seq[CHOOSE k \in hits : \A j \in hits : k <= j]>>

(* get_gig: the row of the table when there is one, else memory_gigs.get.  *)
(* The result is << >> for None and <<gig>> otherwise.                     *)
get_gig(self, gig_id) ==
    LET row == IF self.use_sqlite /\ self.conn
               THEN FirstWith(self.rows, LAMBDA r : r.id = gig_id)
               ELSE << >>
    IN  IF row # << >> THEN <<row_to_gig(row[1])>>
        ELSE FirstWith(self.memory_gigs, LAMBDA g : g.id = gig_id)

(* get_all_gigs: the rows of the table in SQLite mode, memory_gigs         *)
(* otherwise.                                                              *)
get_all_gigs(self, active_only) ==
    IF self.use_sqlite /\ self.conn
    THEN LET rows == IF active_only
                     THEN SelectSeq(self.rows, LAMBDA r : r.is_active = 1)
                     ELSE self.rows
         IN  [k \in 1..Len(rows) |-> row_to_gig(rows[k])]
    ELSE IF active_only THEN SelectSeq(self.memory_gigs, LAMBDA g : g.is_active)
         ELSE self.memory_gigs

----------------------------------------------------------------------------
(* SpecDb: one DatabaseManager, in-memory or on an empty SQLite file, and  *)
(* calls of add_gig, get_gig and get_all_gigs one after the other.         *)

GigIds == {"gig_1", "gig_2"}
GigTitles == {"first post", "second post"}
DBGigs == [id : GigIds, title : GigTitles, is_active : BOOLEAN]

(* DatabaseManager(use_sqlite=...): _init_sqlite falls back to memory when *)
(* the file cannot be opened.                                              *)
InitDb ==
    /\ user_profile = << >>
    /\ available_gigs = << >>
    /\ top_n = 0
    /\ pc = "idle"
    /\ idx = 0
    /\ recommendations = << >>
    /\ result = << >>
    /\ first_result = << >>
    /\ calls = 0
    /\ engine = << >>
    /\ tasks = << >>
    /\ search = << >>
    /\ agent = << >>
    /\ api_client = << >>
    /\ clock = << >>
    /\ monitor = << >>
    /\ inp = [fn |-> "none"]
    /\ out = NoCall
    /\ \E sqlite \in BOOLEAN :
          db = [use_sqlite |-> sqlite, conn |-> sqlite, rows |-> << >>, memory_gigs |-> << >>]
    /\ seen = [added |-> << >>]

DbUnchanged ==
    UNCHANGED <<user_profile, available_gigs, top_n, pc, idx, recommendations, result,
                first_result, calls, engine, tasks, search, agent, api_client, clock,
                monitor>>

(* The observer notes the gig of the latest add_gig that returned True. *)
AddGig ==
    /\ \E gig \in DBGigs :
          /\ inp' = [fn |-> "add_gig", gig |-> gig]
          /\ db' = add_gig(db, gig)
          /\ seen' = [added |-> <<gig>>]
    /\ out' = Ret(TRUE)
    /\ DbUnchanged

GetGig ==
    /\ \E gig_id \in GigIds :
          /\ inp' = [fn |-> "get_gig", gig_id |-> gig_id]
          /\ out' = Ret(get_gig(db, gig_id))
    /\ UNCHANGED <<db, seen>>
    /\ DbUnchanged

GetAllGigs ==
    /\ \E active_only \in BOOLEAN :
          /\ inp' = [fn |-> "get_all_gigs", active_only |-> active_only]
          /\ out' = Ret(get_all_gigs(db, active_only))
    /\ UNCHANGED <<db, seen>>
    /\ DbUnchanged

NextDb == AddGig \/ GetGig \/ GetAllGigs

SpecDb == InitDb /\ [][NextDb]_vars

(* The latest gig added, when it is active. *)
LatestActive == seen.added # << >> /\ seen.added[1].is_active

(* C24: once add_gig(g) has returned True for an active gig g, get_gig of  *)
(* its id returns g and get_all_gigs() contains g, in both modes.          *)
C24_AddedGigIsReadBack ==
    LatestActive =>
        /\ (inp.fn = "get_gig" /\ inp.gig_id = seen.added[1].id) => out = Ret(seen.added)
        /\ (inp.fn = "get_all_gigs" /\ inp.active_only) =>
              \E k \in 1..Len(out.val) : out.val[k] = seen.added[1]

(* The same in in-memory mode, where it holds. *)
C24_ReadBackInMemoryMode ==
    ~db.use_sqlite => C24_AddedGigIsReadBack

(* In SQLite mode it holds as long as no INSERT has failed. *)
C24_ReadBackWithoutFallback ==
    (db.use_sqlite /\ db.memory_gigs = << >>) => C24_AddedGigIsReadBack

----------------------------------------------------------------------------
(* FreelanceAPIAggregator (src/freelance_api_clients.py)                   *)

(* NormalizedGig.to_dict: the keys of the dictionary (project_type and the *)
(* numeric budget fields are not among them).                              *)
to_dict(gig) == [id |-> gig.id, platform |-> gig.platform, match_score |-> gig.match_score]

RECURSIVE aggregate_results_first_failure_ends(_, _, _, _)
(* Mutant: the first failed platform ends the aggregation. *)
aggregate_results_first_failure_ends(platform_names, results, k, acc) ==
    IF k > Len(results) THEN acc
    ELSE IF ~results[k].ok THEN acc
    ELSE aggregate_results_first_failure_ends(platform_names, results, k + 1,
             [all_gigs |-> acc.all_gigs \o results[k].val,
              platforms_searched |-> Append(acc.platforms_searched, platform_names[k])])

RECURSIVE aggregate_results(_, _, _, _)
(* The loop over zip(platform_names, results): an exception returned by    *)
(* gather is printed, a list is merged.                                    *)
aggregate_results(platform_names, results, k, acc) ==
    IF k > Len(results) THEN acc
    ELSE aggregate_results(platform_names, results, k + 1,
             IF ~results[k].ok THEN acc
             ELSE [all_gigs |-> acc.all_gigs \o results[k].val,
                   platforms_searched |-> Append(acc.platforms_searched, platform_names[k])])

(* search_all_platforms for the clients in platform_names, results[k]      *)
(* being what gather(..., return_exceptions=True) holds for the k-th one.  *)
search_all_platforms(platform_names, results, criteria) ==
    LET search_criteria == [skills |-> criteria.skills,
                            max_budget |-> criteria.max_budget,
                            min_budget |-> criteria.min_budget,
                            project_type |-> criteria.project_type]
    IN  IF platform_names = << >>
        THEN [total_found |-> 0, gigs |-> << >>, platforms_searched |-> << >>,
              search_criteria |-> search_criteria,
              error |-> "No API clients configured."]
        ELSE
        LET merged == aggregate_results(platform_names, results, 1,
                          [all_gigs |-> << >>, platforms_searched |-> << >>])
            all_gigs == sort_by_match(merged.all_gigs, 1, << >>)
        IN  [total_found |-> Len(all_gigs),
             gigs |-> [k \in 1..Len(all_gigs) |-> to_dict(all_gigs[k])],
             platforms_searched |-> merged.platforms_searched,
             search_criteria |-> search_criteria]

----------------------------------------------------------------------------
(* SpecAggregate: search_all_platforms over the configured clients, each   *)
(* of whose searches returns a list of gigs or raises.                     *)

MaxPlatformGigs == 2

(* The clients the aggregator holds, in the order of all_platforms. *)
ClientSets == {<< >>, <<"upwork">>, <<"freelancer">>, <<"upwork", "freelancer">>}
PlatformMatchScores == {RInt(0), Rat(1, 2), RInt(1)}

(* What the search of one platform can end in. *)
PlatformOutcomes(platform) ==
    {Raise("APIError")}
    \cup {Ret([k \in 1..Len(scores) |->
                  [id |-> <<platform, k>>, platform |-> platform,
                   match_score |-> scores[k], project_type |-> "fixed"]]) :
             scores \in SeqsUpTo(PlatformMatchScores, MaxPlatformGigs)}

InitAggregate ==
    /\ RecIdle
    /\ out = NoCall
    /\ \E clients \in ClientSets :
          \E results \in [1..Len(clients) -> UNION {PlatformOutcomes(p) : p \in SeqRange(clients)}] :
              /\ \A k \in 1..Len(clients) : results[k] \in PlatformOutcomes(clients[k])
              /\ inp = [fn |-> "search_all_platforms", clients |-> clients,
                        results |-> results, criteria |-> RetryCriteria]

CallSearchAllPlatforms ==
    /\ inp.fn = "search_all_platforms"
    /\ ~Called
    /\ out' = Ret(search_all_platforms(inp.clients, inp.results, inp.criteria))
    /\ UNCHANGED <<inp, recVars>>

NextAggregate == CallSearchAllPlatforms

SpecAggregate == InitAggregate /\ [][NextAggregate]_vars

(* The platforms whose search returned a list, in the clients' order. *)
Completed(clients, results) ==
    LET done == {k \in 1..Len(clients) : results[k].ok}
    IN  [platform \in {clients[k] : k \in done} |->
            results[CHOOSE k \in done : clients[k] = platform].val]

(* C25: a platform whose search raises takes nothing from the others: the  *)
(* result holds every gig of every platform whose search completed and no  *)
(* other, platforms_searched lists exactly those platforms, the gigs are   *)
(* in non-increasing match_score order and total_found is their number;    *)
(* with no client the result is empty and carries an error field.          *)
C25_FailuresIsolated ==
    (Called /\ inp.fn = "search_all_platforms") =>
        /\ out.ok
        /\ LET r == out.val
               completed == Completed(inp.clients, inp.results)
           IN  /\ SeqRange(r.platforms_searched) = DOMAIN completed
               /\ Len(r.platforms_searched) = Cardinality(DOMAIN completed)
               /\ SeqRange(r.gigs) =
                     UNION {{[id |-> g.id, platform |-> g.platform,
                              match_score |-> g.match_score] :
                                g \in SeqRange(completed[p])} : p \in DOMAIN completed}
               /\ Len(r.gigs) = Cardinality(SeqRange(r.gigs))
               /\ \A k \in 1..(Len(r.gigs) - 1) :
                     RLe(r.gigs[k + 1].match_score, r.gigs[k].match_score)
               /\ r.total_found = Len(r.gigs)
               /\ inp.clients = << >> =>
                     /\ "error" \in DOMAIN r
                     /\ r.gigs = << >> /\ r.total_found = 0 /\ r.platforms_searched = << >>

(* The first platform's search raised and the gigs of the second were      *)
(* returned, best match first.                                             *)
C25_Witness ==
    /\ Called /\ inp.fn = "search_all_platforms"
    /\ Len(inp.clients) = 2
    /\ ~inp.results[1].ok
    /\ out.val.platforms_searched = <<"freelancer">>
    /\ out.val.total_found = 2
    /\ RLt(out.val.gigs[2].match_score, out.val.gigs[1].match_score)
    /\ RLt(inp.results[2].val[1].match_score, inp.results[2].val[2].match_score)

----------------------------------------------------------------------------
(* SpecCache: searches of one authenticated FreelancerAPIClient made one   *)
(* after the other, the platform answering 200 or failing.  No entry of    *)
(* the TTLCache expires during the searches.                               *)

MaxSearches == 3

(* The projects the platform holds, and the page of them it returns for    *)
(* the limit and offset of the request.                                    *)
PlatformProjects ==
    <<CHOOSE p \in RawProjects : p.id = "complete",
      CHOOSE p \in RawProjects : p.id = "other_skill",
      CHOOSE p \in RawProjects : p.id = "long">>

PlatformPage(criteria) ==
    SubSeq(PlatformProjects, criteria.offset + 1,
           IF criteria.offset + criteria.limit < Len(PlatformProjects)
           THEN criteria.offset + criteria.limit ELSE Len(PlatformProjects))

CacheCriteria ==
    [skills : {<<"Python", "django">>, <<"go">>},
     min_budget : {None}, max_budget : {None}, project_type : {"None"},
     min_match_score : {RInt(0), Rat(3, 4)},
     limit : {1, 10},
     offset : {0, 1}]

(* One search_gigs call at time now: the client afterwards, what is        *)
(* returned, whether it came from the cache and the time at the return.    *)
cached_search_gigs(self, criteria, now, answered) ==
    LET cache_key == get_cache_key(criteria)
    IN  IF self.oauth_token = ""
        THEN [self |-> self, gigs |-> << >>, cached |-> FALSE, now |-> now]
        ELSE IF cache_has(self.cache, cache_key)
        THEN [self |-> self, gigs |-> cache_get(self.cache, cache_key),
              cached |-> TRUE, now |-> now]
        ELSE
        LET sent == IF now - self.last_request_time < self.rate_limit_delay
                    THEN self.last_request_time + self.rate_limit_delay
                    ELSE now
            gigs == parse_api_response(PlatformPage(criteria), criteria)
        IN  IF answered
            THEN [self |-> [self EXCEPT !.last_request_time = sent,
                                        !.cache = cache_set(@, cache_key, gigs)],
                  gigs |-> gigs, cached |-> FALSE, now |-> sent]
            ELSE [self |-> [self EXCEPT !.last_request_time = sent],
                  gigs |-> << >>, cached |-> FALSE, now |-> sent]

InitCache ==
    /\ user_profile = << >>
    /\ available_gigs = << >>
    /\ top_n = 0
    /\ pc = "idle"
    /\ idx = 0
    /\ recommendations = << >>
    /\ result = << >>
    /\ first_result = << >>
    /\ calls = 0
    /\ engine = << >>
    /\ tasks = << >>
    /\ search = << >>
    /\ agent = << >>
    /\ monitor = << >>
    /\ db = << >>
    /\ inp = [fn |-> "none"]
    /\ out = NoCall
    /\ clock = [time |-> RateLimitDelay]
    /\ api_client = [oauth_token |-> "token", cache |-> {},
                     rate_limit_delay |-> RateLimitDelay, last_request_time |-> 0]
    /\ seen = [searches |-> 0, cached |-> FALSE, populated |-> {}]

(* The observer notes, for every cache key, the criteria of the search     *)
(* that stored the entry, and whether the last search was served from the  *)
(* cache.                                                                  *)
CallCachedSearch ==
    /\ seen.searches < MaxSearches
    /\ \E criteria \in CacheCriteria, answered \in BOOLEAN :
          \E r \in {cached_search_gigs(api_client, criteria, clock.time, answered)} :
              /\ inp' = [fn |-> "cached_search_gigs", criteria |-> criteria]
              /\ out' = Ret(r.gigs)
              /\ api_client' = r.self
              /\ clock' = [clock EXCEPT !.time = r.now]
              /\ seen' = [searches |-> seen.searches + 1,
                          cached |-> r.cached,
                          populated |->
                              IF r.self.cache = api_client.cache THEN seen.populated
                              ELSE {e \in seen.populated : e.key # get_cache_key(criteria)}
                                   \cup {[key |-> get_cache_key(criteria),
                                          criteria |-> criteria]}]
    /\ UNCHANGED <<user_profile, available_gigs, top_n, pc, idx, recommendations, result,
                   first_result, calls, engine, tasks, search, agent, monitor, db>>

NextCache == CallCachedSearch

SpecCache == InitCache /\ [][NextCache]_vars

(* The criteria of the search that stored the entry a search was served    *)
(* from.                                                                   *)
PopulatedBy(criteria) ==
    (CHOOSE e \in seen.populated : e.key = get_cache_key(criteria)).criteria

(* C27: a search is served from the cache only when its criteria are those *)
(* of the search that stored the entry.                                    *)
C27_CachedOnlyForSameCriteria ==
    (Called /\ seen.cached) => PopulatedBy(inp.criteria) = inp.criteria

(* What holds: a search served from the cache has the skills, budgets and  *)
(* project type of the search that stored the entry.                       *)
C27_CachedForSameKeyFields ==
    (Called /\ seen.cached) =>
        LET by == PopulatedBy(inp.criteria)
        IN  /\ by.skills = inp.criteria.skills
            /\ by.min_budget = inp.criteria.min_budget
            /\ by.max_budget = inp.criteria.max_budget
            /\ by.project_type = inp.criteria.project_type

(* A search asking for a match score of at least 0.75 was handed the list  *)
(* stored by a search without a floor, a gig of score 0.5 in it.           *)
C27_StaleResultServed ==
    /\ Called /\ seen.cached
    /\ inp.criteria.min_match_score = Rat(3, 4)
    /\ \E k \in 1..Len(out.val) : RLt(out.val[k].match_score, Rat(3, 4))

----------------------------------------------------------------------------
(* The counters of the monitor, under SpecMonitor.                         *)

(* The number of end_request calls the monitor has recorded. *)
Recorded == sum_values([tool \in ToolNames |-> Len(monitor.tool_stats[tool])], ToolNames)

(* C28: the totals get_all_stats computes satisfy total_requests =         *)
(* total_success + total_errors, and the statistics of every tool satisfy  *)
(* call_count = success_count + error_count, also after more than          *)
(* max_history requests.                                                   *)
C28_CountersConsistent ==
    \A t \in Threads :
        /\ tasks[t].totals # << >> =>
              tasks[t].totals.total_requests
                  = tasks[t].totals.total_success + tasks[t].totals.total_errors
        /\ tasks[t].result.kind = "all_stats" =>
              tasks[t].result.totals.total_requests
                  = tasks[t].result.totals.total_success + tasks[t].result.totals.total_errors
        /\ tasks[t].result.kind = "tool_stats" =>
              tasks[t].result.stats.call_count
                  = tasks[t].result.stats.success_count + tasks[t].result.stats.error_count

(* What holds: the statistics of a tool are consistent, the stored         *)
(* counters add up to the number of recorded requests, and the length of   *)
(* request_history is that number capped at max_history.                   *)
C28_ConsistentUpToHistory ==
    /\ \A t \in Threads :
          tasks[t].result.kind = "tool_stats" =>
              tasks[t].result.stats.call_count
                  = tasks[t].result.stats.success_count + tasks[t].result.stats.error_count
    /\ sum_values(monitor.success_count, ToolNames)
          + sum_values(monitor.error_count, ToolNames) = Recorded
    /\ Len(monitor.request_history)
          = IF Recorded < monitor.max_history THEN Recorded ELSE monitor.max_history

============================================================================
